---- MODULE Spec2Model ----
(***************************************************************************)
(* StoryScript front end: the hand-written Lexer (src/src/lexer.cpp) and   *)
(* the recursive-descent Parser (src/src/parser.cpp).                      *)
(*                                                                         *)
(* A source text is a sequence of one-character strings.  The lexer is     *)
(* modelled character by character as pure operators over the lexer's      *)
(* cursor record [position, start, line, column]; the parser's rule        *)
(* methods are operators over the parser state (the lexer cursor plus      *)
(* current, previous, errorOccurred and the diagnostic stream) that return *)
(* the state they leave, the node they build and how they ended.  One      *)
(* iteration of parseProgram's loop, and each step of synchronize(), is an *)
(* action.                                                                 *)
(***************************************************************************)
EXTENDS Integers, Sequences, FiniteSets, TLC

(***************************************************************************)
(* Characters                                                              *)
(***************************************************************************)

\* peek()/peekNext() return '\0' past the end of the text.
NUL == "NUL"

Lower == {"a","b","c","d","e","f","g","h","i","j","k","l","m",
          "n","o","p","q","r","s","t","u","v","w","x","y","z"}

Upper == {"A","B","C","D","E","F","G","H","I","J","K","L","M",
          "N","O","P","Q","R","S","T","U","V","W","X","Y","Z"}

Digit == {"0","1","2","3","4","5","6","7","8","9"}

isalpha(c) == c \in Lower \cup Upper

isdigit(c) == c \in Digit

isalnum(c) == isalpha(c) \/ isdigit(c)

(***************************************************************************)
(* Keyword table (Lexer::initKeywords)                                     *)
(***************************************************************************)

keywords ==
  { << <<"r","o","o","m">>, "ROOM" >>,
    << <<"i","t","e","m">>, "ITEM" >>,
    << <<"v","a","r">>, "VAR" >>,
    << <<"f","u","n","c","t","i","o","n">>, "FUNCTION" >>,
    << <<"i","f">>, "IF" >>,
    << <<"e","l","s","e">>, "ELSE" >>,
    << <<"w","h","i","l","e">>, "WHILE" >>,
    << <<"f","o","r">>, "FOR" >>,
    << <<"r","e","t","u","r","n">>, "RETURN" >>,
    << <<"w","h","e","n">>, "WHEN" >>,
    << <<"e","n","t","e","r","e","d">>, "ENTERED" >>,
    << <<"s","a","y">>, "SAY" >>,
    << <<"g","o","t","o">>, "GOTO" >>,
    << <<"t","r","u","e">>, "TRUE" >>,
    << <<"f","a","l","s","e">>, "FALSE" >>,
    << <<"n","o","t">>, "NOT" >>,
    << <<"a","n","d">>, "AND" >>,
    << <<"o","r">>, "OR" >> }

\* A lookup that finds a keyword when the text begins with it.
identifierTypeByPrefix(text) ==
  LET found == {kw \in keywords : Len(kw[1]) <= Len(text)
                                   /\ SubSeq(text, 1, Len(kw[1])) = kw[1]}
  IN IF found # {} THEN (CHOOSE kw \in found : TRUE)[2] ELSE "IDENTIFIER"

\* keywords.find(text): the mapped type, or IDENTIFIER when text is no key.
identifierType(text) ==
  IF \E kw \in keywords : kw[1] = text
  THEN (CHOOSE kw \in keywords : kw[1] = text)[2]
  ELSE "IDENTIFIER"

(***************************************************************************)
(* Lexer messages, as the character sequences errorToken stores            *)
(***************************************************************************)

UnexpectedCharacter ==
  <<"U","n","e","x","p","e","c","t","e","d"," ",
    "c","h","a","r","a","c","t","e","r",".">>

UnterminatedString ==
  <<"U","n","t","e","r","m","i","n","a","t","e","d"," ",
    "s","t","r","i","n","g",".">>

(***************************************************************************)
(* Lexer: cursor L = [position, start, line, column] over a text src       *)
(***************************************************************************)

LexerNew == [position |-> 0, start |-> 0, line |-> 1, column |-> 1]

isAtEnd(src, L) == L.position >= Len(src)

peek(src, L) == IF isAtEnd(src, L) THEN NUL ELSE src[L.position + 1]

peekNext(src, L) ==
  IF L.position + 1 >= Len(src) THEN NUL ELSE src[L.position + 2]

\* Lexer::advance moves the cursor; the character it returns is the one
\* before the new position.
lexAdvance(L) == [L EXCEPT !.position = @ + 1, !.column = @ + 1]

\* match() that consumes the next character whatever it is.
lexMatchAny(src, L, expected) ==
  IF isAtEnd(src, L) THEN [ok |-> FALSE, L |-> L]
  ELSE [ok |-> TRUE, L |-> lexAdvance(L)]

\* match() that reports the expected character and leaves it in place.
lexMatchPeeking(src, L, expected) ==
  [ok |-> ~isAtEnd(src, L) /\ src[L.position + 1] = expected, L |-> L]

lexMatch(src, L, expected) ==
  IF isAtEnd(src, L) \/ src[L.position + 1] # expected
  THEN [ok |-> FALSE, L |-> L]
  ELSE [ok |-> TRUE, L |-> lexAdvance(L)]

\* makeToken() whose substr is one character short.
makeTokenShort(src, L, type) ==
  LET lexeme == SubSeq(src, L.start + 1, L.position - 1)
  IN [type |-> type, lexeme |-> lexeme, line |-> L.line,
      column |-> L.column - Len(lexeme)]

makeToken(src, L, type) ==
  LET lexeme == SubSeq(src, L.start + 1, L.position)
  IN [type |-> type, lexeme |-> lexeme, line |-> L.line,
      column |-> L.column - Len(lexeme)]

\* errorToken() that stores no message.
errorTokenSilent(L, message) ==
  [type |-> "UNKNOWN", lexeme |-> <<>>, line |-> L.line,
   column |-> L.column]

errorToken(L, message) ==
  [type |-> "UNKNOWN", lexeme |-> message, line |-> L.line,
   column |-> L.column]

RECURSIVE skipWhitespace(_, _)

\* skipWhitespace() that counts a column at the end of the text.
skipWhitespaceAtEnd(src, L) ==
  LET c == peek(src, L)
  IN IF c \in {" ", "\r", "\t"} THEN skipWhitespace(src, lexAdvance(L))
     ELSE IF c = "\n"
       THEN skipWhitespace(src,
              lexAdvance([L EXCEPT !.line = @ + 1, !.column = 1]))
     ELSE IF isAtEnd(src, L) THEN [L EXCEPT !.column = @ + 1]
     ELSE L

skipWhitespace(src, L) ==
  LET c == peek(src, L)
  IN IF c \in {" ", "\r", "\t"} THEN skipWhitespace(src, lexAdvance(L))
     ELSE IF c = "\n"
       THEN skipWhitespace(src,
              lexAdvance([L EXCEPT !.line = @ + 1, !.column = 1]))
     ELSE L

\* while (isalnum(peek()) || peek() == '_') advance();
RECURSIVE skipAlnum(_, _)
skipAlnum(src, L) ==
  IF isalnum(peek(src, L)) \/ peek(src, L) = "_"
  THEN skipAlnum(src, lexAdvance(L))
  ELSE L

\* while (isdigit(peek())) advance();  In closed form (a digit run can be
\* hundreds of characters long): the cursor stops at the first position at
\* or after the current one that holds no digit.
skipDigits(src, L) ==
  LET stops == {i \in L.position..Len(src) :
                  i = Len(src) \/ ~isdigit(src[i + 1])}
      stop == CHOOSE i \in stops : \A j \in stops : i <= j
  IN [L EXCEPT !.position = stop, !.column = @ + (stop - L.position)]

\* A comment loop that stops after one character.
skipCommentShort(src, L) ==
  IF peek(src, L) # "\n" /\ ~isAtEnd(src, L) THEN lexAdvance(L) ELSE L

\* while (peek() != '\n' && !isAtEnd()) advance();
RECURSIVE skipComment(_, _)
skipComment(src, L) ==
  IF peek(src, L) # "\n" /\ ~isAtEnd(src, L)
  THEN skipComment(src, lexAdvance(L))
  ELSE L

RECURSIVE skipString(_, _)

\* The loop of Lexer::string with a backslash taking the character after it.
skipStringEscaping(src, L) ==
  IF peek(src, L) # "\"" /\ ~isAtEnd(src, L)
  THEN skipString(src,
         lexAdvance(IF peek(src, L) = "\n"
                    THEN [L EXCEPT !.line = @ + 1, !.column = 1]
                    ELSE IF peek(src, L) = "\\" /\ peekNext(src, L) # NUL
                      THEN lexAdvance(L)
                    ELSE L))
  ELSE L

\* The loop of Lexer::string up to the closing quote or the end of the text.
skipString(src, L) ==
  IF peek(src, L) # "\"" /\ ~isAtEnd(src, L)
  THEN skipString(src,
         lexAdvance(IF peek(src, L) = "\n"
                    THEN [L EXCEPT !.line = @ + 1, !.column = 1]
                    ELSE L))
  ELSE L

identifier(src, L) ==
  LET L1 == skipAlnum(src, L)
      text == SubSeq(src, L1.start + 1, L1.position)
  IN [L |-> L1, tok |-> makeToken(src, L1, identifierType(text))]

\* number() that takes a '.' into the token whatever follows it.
numberTakingDot(src, L) ==
  LET L1 == skipDigits(src, L)
      L2 == IF peek(src, L1) = "."
            THEN skipDigits(src, lexAdvance(L1))
            ELSE L1
  IN [L |-> L2, tok |-> makeToken(src, L2, "NUMBER")]

number(src, L) ==
  LET L1 == skipDigits(src, L)
      L2 == IF peek(src, L1) = "." /\ isdigit(peekNext(src, L1))
            THEN skipDigits(src, lexAdvance(L1))
            ELSE L1
  IN [L |-> L2, tok |-> makeToken(src, L2, "NUMBER")]

\* string() that goes back to the opening quote when no quote closes it.
stringRewinding(src, L) ==
  LET L1 == skipString(src, L)
  IN IF isAtEnd(src, L1)
     THEN [L |-> [L1 EXCEPT !.position = L1.start],
           tok |-> errorToken(L1, UnterminatedString)]
     ELSE [L |-> lexAdvance(L1),
           tok |-> makeToken(src, lexAdvance(L1), "STRING")]

string(src, L) ==
  LET L1 == skipString(src, L)
  IN IF isAtEnd(src, L1)
     THEN [L |-> L1, tok |-> errorToken(L1, UnterminatedString)]
     ELSE [L |-> lexAdvance(L1),
           tok |-> makeToken(src, lexAdvance(L1), "STRING")]

\* The single-character tokens of nextToken's switch.
SingleCharType(c) ==
  CASE c = "(" -> "LPAREN"
    [] c = ")" -> "RPAREN"
    [] c = "{" -> "LBRACE"
    [] c = "}" -> "RBRACE"
    [] c = ":" -> "COLON"
    [] c = "," -> "COMMA"
    [] c = ";" -> "SEMICOLON"
    [] c = "." -> "DOT"
    [] c = "+" -> "PLUS"
    [] c = "-" -> "MINUS"
    [] c = "*" -> "MULTIPLY"
    [] OTHER -> "NONE"

\* The operators that take a following '=': <<type with '=', type without>>.
TwoCharTypes(c) ==
  CASE c = "=" -> <<"EQ", "ASSIGN">>
    [] c = "!" -> <<"NEQ", "NOT">>
    [] c = "<" -> <<"LTE", "LT">>
    [] c = ">" -> <<"GTE", "GT">>
    [] OTHER -> <<>>

RECURSIVE nextToken(_, _)
nextToken(src, L) ==
  LET L0 == skipWhitespace(src, L)
      L1 == [L0 EXCEPT !.start = L0.position]
  IN IF isAtEnd(src, L1)
     THEN [L |-> L1, tok |-> makeToken(src, L1, "EOF_TOKEN")]
     ELSE
       LET c == src[L1.position + 1]
           L2 == lexAdvance(L1)
       IN IF isalpha(c) \/ c = "_" THEN identifier(src, L2)
          ELSE IF isdigit(c) THEN number(src, L2)
          ELSE IF SingleCharType(c) # "NONE"
            THEN [L |-> L2, tok |-> makeToken(src, L2, SingleCharType(c))]
          ELSE IF c = "/"
            THEN LET m == lexMatch(src, L2, "/")
                 IN IF m.ok
                    THEN nextToken(src, skipComment(src, m.L))
                    ELSE [L |-> L2, tok |-> makeToken(src, L2, "DIVIDE")]
          ELSE IF TwoCharTypes(c) # <<>>
            THEN LET m == lexMatch(src, L2, "=")
                 IN [L |-> m.L,
                     tok |-> makeToken(src, m.L,
                               IF m.ok THEN TwoCharTypes(c)[1]
                                       ELSE TwoCharTypes(c)[2])]
          ELSE IF c = "\"" THEN string(src, L2)
          ELSE [L |-> L2, tok |-> errorToken(L2, UnexpectedCharacter)]

\* peekToken() without the restore.
peekTokenNoRestore(src, L) == nextToken(src, L)

\* Lexer::peekToken: nextToken() between a save and a restore of position,
\* start, line and column.
peekToken(src, L) == [L |-> L, tok |-> nextToken(src, L).tok]

\* The do-while loop of Lexer::tokenize.
RECURSIVE tokenizeLoop(_, _, _)

\* The loop with one more push_back(token) after it.
tokenizeLoopExtra(src, L, tokens) ==
  LET r == nextToken(src, L)
  IN IF r.tok.type # "EOF_TOKEN"
     THEN tokenizeLoop(src, r.L, Append(tokens, r.tok))
     ELSE [L |-> r.L, tokens |-> Append(Append(tokens, r.tok), r.tok)]

tokenizeLoop(src, L, tokens) ==
  LET r == nextToken(src, L)
  IN IF r.tok.type # "EOF_TOKEN"
     THEN tokenizeLoop(src, r.L, Append(tokens, r.tok))
     ELSE [L |-> r.L, tokens |-> Append(tokens, r.tok)]

tokenize(src, L) == tokenizeLoop(src, L, <<>>)

(***************************************************************************)
(* Bounds of the model                                                     *)
(***************************************************************************)

\* The diagnostic stream keeps its first MaxCerr lines.
MaxCerr == 4

\* Each of the Program's three sequences keeps its first MaxProgram nodes.
MaxProgram == 3

(***************************************************************************)
(* std::stod (parser.cpp:450)                                              *)
(***************************************************************************)

\* The largest decimal exponent of a double (<cfloat>): a literal whose
\* integer part has more than DBL_MAX_10_EXP + 1 significant digits is
\* beyond the range of double, and std::stod throws std::out_of_range.
DBL_MAX_10_EXP == 308

DigitValue(c) ==
  CASE c = "0" -> 0 [] c = "1" -> 1 [] c = "2" -> 2 [] c = "3" -> 3
    [] c = "4" -> 4 [] c = "5" -> 5 [] c = "6" -> 6 [] c = "7" -> 7
    [] c = "8" -> 8 [] c = "9" -> 9

\* Index of the '.' of a number lexeme, or Len + 1 when it has none.
dotIndex(lexeme) ==
  IF \E i \in 1..Len(lexeme) : lexeme[i] = "."
  THEN CHOOSE i \in 1..Len(lexeme) : lexeme[i] = "."
  ELSE Len(lexeme) + 1

\* The number of digits of the integer part, leading zeros not counted.
integerDigits(lexeme) ==
  LET n == dotIndex(lexeme) - 1
      nonzero == {i \in 1..n : lexeme[i] # "0"}
  IN IF nonzero = {} THEN 0
     ELSE n + 1 - (CHOOSE i \in nonzero : \A j \in nonzero : i <= j)

RECURSIVE stripTrailingZeros(_)
stripTrailingZeros(digits) ==
  IF Len(digits) > 0 /\ digits[Len(digits)] = "0"
  THEN stripTrailingZeros(SubSeq(digits, 1, Len(digits) - 1))
  ELSE digits

RECURSIVE digitsValue(_, _)
digitsValue(digits, acc) ==
  IF digits = <<>> THEN acc
  ELSE digitsValue(Tail(digits), 10 * acc + DigitValue(Head(digits)))

stodOutOfRange(lexeme) == integerDigits(lexeme) > DBL_MAX_10_EXP + 1

\* The value std::stod returns for a lexeme in range, as mant / 10^scale
\* in lowest decimal terms ("1.50" and "1.5" are the same double).
stod(lexeme) ==
  LET d == dotIndex(lexeme)
      int == SubSeq(lexeme, 1, d - 1)
      frac == stripTrailingZeros(SubSeq(lexeme, d + 1, Len(lexeme)))
  IN [mant |-> digitsValue(int \o frac, 0), scale |-> Len(frac)]

(***************************************************************************)
(* AST nodes (ast.h)                                                       *)
(***************************************************************************)

\* An empty std::unique_ptr.
Null == [kind |-> "null"]

\* What a read of ->location through an empty pointer yields when the
\* process survives it.
IndeterminateLoc == [line |-> -1, column |-> -1]

NumberValue(v) == [t |-> "number", v |-> v]
StringValue(v) == [t |-> "string", v |-> v]
BoolValue(v) == [t |-> "bool", v |-> v]

LiteralExpr(loc, value) == [kind |-> "Literal", loc |-> loc, value |-> value]

VariableExpr(loc, name) == [kind |-> "Variable", loc |-> loc, name |-> name]

BinaryExpr(loc, left, op, right) ==
  [kind |-> "Binary", loc |-> loc, left |-> left, op |-> op, right |-> right]

UnaryExpr(loc, op, right) ==
  [kind |-> "Unary", loc |-> loc, op |-> op, right |-> right]

CallExpr(loc, callee, paren, arguments) ==
  [kind |-> "Call", loc |-> loc, callee |-> callee, paren |-> paren,
   arguments |-> arguments]

ExpressionStmt(loc, expression) ==
  [kind |-> "ExpressionStmt", loc |-> loc, expression |-> expression]

VarStmt(loc, name, initializer) ==
  [kind |-> "Var", loc |-> loc, name |-> name, initializer |-> initializer]

BlockStmt(loc, statements) ==
  [kind |-> "Block", loc |-> loc, statements |-> statements]

IfStmt(loc, condition, thenBranch, elseBranch) ==
  [kind |-> "If", loc |-> loc, condition |-> condition,
   thenBranch |-> thenBranch, elseBranch |-> elseBranch]

WhileStmt(loc, condition, body) ==
  [kind |-> "While", loc |-> loc, condition |-> condition, body |-> body]

FunctionStmt(loc, name, params, body) ==
  [kind |-> "Function", loc |-> loc, name |-> name, params |-> params,
   body |-> body]

ReturnStmt(loc, keyword, value) ==
  [kind |-> "Return", loc |-> loc, keyword |-> keyword, value |-> value]

SayStmt(loc, message) == [kind |-> "Say", loc |-> loc, message |-> message]

GotoStmt(loc, destination) ==
  [kind |-> "Goto", loc |-> loc, destination |-> destination]

Room(loc, name, properties, items, events) ==
  [kind |-> "Room", loc |-> loc, name |-> name, properties |-> properties,
   items |-> items, events |-> events]

Item(loc, name, properties) ==
  [kind |-> "Item", loc |-> loc, name |-> name, properties |-> properties]

(***************************************************************************)
(* Parser state and primitives                                             *)
(*                                                                         *)
(* P = [lexer, current, previous, errorOccurred, cerr, nullDeref, ub] over *)
(* the text src.  ub is what the build does when ->location is read        *)
(* through an empty pointer: "crash" (the process dies there) or "garbage" *)
(* (the read yields an indeterminate location and parsing goes on).        *)
(***************************************************************************)

UBOutcomes == {"crash", "garbage"}

\* A Token member before its first assignment.
NoToken == [type |-> "UNINIT", lexeme |-> <<>>, line |-> 0, column |-> 0]

\* Lexer::getCurrentLocation (the file name is the same in every node).
getCurrentLocation(P) == [line |-> P.lexer.line, column |-> P.lexer.column]

\* advance() that pulls two tokens and drops the first.
advanceSkipping(src, P) ==
  LET r == nextToken(src, nextToken(src, P.lexer).L)
  IN [P EXCEPT !.previous = P.current, !.current = r.tok, !.lexer = r.L]

advance(src, P) ==
  LET r == nextToken(src, P.lexer)
  IN [P EXCEPT !.previous = P.current, !.current = r.tok, !.lexer = r.L]

check(P, type) == P.current.type = type

match(src, P, type) ==
  IF check(P, type) THEN [ok |-> TRUE, P |-> advance(src, P)]
  ELSE [ok |-> FALSE, P |-> P]

matchAny(src, P, types) ==
  IF \E t \in types : check(P, t) THEN [ok |-> TRUE, P |-> advance(src, P)]
  ELSE [ok |-> FALSE, P |-> P]

\* error() without errorOccurred = true.
errorNoFlag(P, message) ==
  [P EXCEPT !.cerr = IF Len(@) < MaxCerr
                     THEN Append(@, [line |-> P.current.line,
                                     column |-> P.current.column,
                                     message |-> message])
                     ELSE @]

error(P, message) ==
  [P EXCEPT !.errorOccurred = TRUE,
            !.cerr = IF Len(@) < MaxCerr
                     THEN Append(@, [line |-> P.current.line,
                                     column |-> P.current.column,
                                     message |-> message])
                     ELSE @]

\* consume() without the call of error().
consumeSilent(src, P, type, message) ==
  IF check(P, type)
  THEN [P |-> advance(src, P), tok |-> P.current]
  ELSE [P |-> P, tok |-> P.current]

\* consume() that skips the mismatched token after reporting it.
consumeSkipping(src, P, type, message) ==
  IF check(P, type)
  THEN [P |-> advance(src, P), tok |-> P.current]
  ELSE [P |-> advance(src, error(P, message)), tok |-> P.current]

consume(src, P, type, message) ==
  IF check(P, type)
  THEN [P |-> advance(src, P), tok |-> P.current]
  ELSE [P |-> error(P, message), tok |-> P.current]

\* How a rule method ends: "ok" (it returns node), "throw" (an exception
\* leaves it), "hang" (a loop in it never exits), "crash" (the process dies).
Ok(P, node) == [P |-> P, node |-> node, out |-> "ok"]

Ends(P, out) == [P |-> P, node |-> Null, out |-> out]

\* r, the result of a call, and then K on it unless the call did not return.
Then(r, K(_)) == IF r.out # "ok" THEN Ends(r.P, r.out) ELSE K(r)

\* The value v of a call that always returns, and then K on it.
Let(v, K(_)) == K(v)

\* node->location.
location(P, node) ==
  IF node.kind = "null"
  THEN [P |-> [P EXCEPT !.nullDeref = TRUE], loc |-> IndeterminateLoc,
        out |-> IF P.ub = "crash" THEN "crash" ELSE "ok"]
  ELSE [P |-> P, loc |-> node.loc, out |-> "ok"]

(***************************************************************************)
(* Expressions (parser.cpp:308-468)                                        *)
(***************************************************************************)

\* rule(src, P) for the rule methods that the others reach from several
\* places: "parseExpression", "parseStatement", "topLevelItem".  (The one
\* definition every recursive descent goes through.)
RECURSIVE call(_, _, _)
RECURSIVE parseAssignment(_, _)
RECURSIVE binaryLevel(_, _, _)
RECURSIVE binaryLevels(_, _, _, _)
RECURSIVE binaryLoop(_, _, _, _)
RECURSIVE parseUnary(_, _)
RECURSIVE callLoop(_, _, _)
RECURSIVE argumentList(_, _, _)

\* do { arguments.push_back(parseExpression()); } while (match(COMMA));
argumentList(src, P, arguments) ==
  Then(call("parseExpression", src, P), LAMBDA r :
    IF check(r.P, "COMMA")
    THEN argumentList(src, advance(src, r.P), Append(arguments, r.node))
    ELSE Ok(r.P, Append(arguments, r.node)))

\* The end of finishCall: consume(RPAREN, ...) and the CallExpr, whose
\* location is read through callee.
callExpr(callee, paren, arguments) ==
  Then(location(paren.P, callee), LAMBDA l :
    Ok(l.P, CallExpr(l.loc, callee, paren.tok, arguments)))

finishCall(src, P, callee) ==
  Then(IF ~check(P, "RPAREN") THEN argumentList(src, P, <<>>)
       ELSE Ok(P, <<>>), LAMBDA arguments :
    callExpr(callee,
             consume(src, arguments.P, "RPAREN",
                     "Expected ')' after arguments."),
             arguments.node))

\* The grouped expression of parsePrimary, after its '('.
parseGrouping(src, P) ==
  Then(call("parseExpression", src, P), LAMBDA expr :
    Ok(consume(src, expr.P, "RPAREN", "Expected ')' after expression.").P,
       expr.node))

\* The literal parsePrimary builds from the token it has just matched.
literalValue(tok) ==
  CASE tok.type = "FALSE" -> BoolValue(FALSE)
    [] tok.type = "TRUE" -> BoolValue(TRUE)
    [] tok.type = "NUMBER" -> NumberValue(stod(tok.lexeme))
    [] tok.type = "STRING" ->
         StringValue(SubSeq(tok.lexeme, 2, Len(tok.lexeme) - 1))

\* parsePrimary() that returns nullptr without calling error().
parsePrimaryQuiet(src, P) ==
  IF P.current.type \in {"FALSE", "TRUE", "STRING"}
    THEN Ok(advance(src, P),
            LiteralExpr(getCurrentLocation(P), literalValue(P.current)))
  ELSE IF check(P, "NUMBER")
    THEN IF stodOutOfRange(P.current.lexeme)
         THEN Ends(advance(src, P), "throw")
         ELSE Ok(advance(src, P),
                 LiteralExpr(getCurrentLocation(P), literalValue(P.current)))
  ELSE IF check(P, "IDENTIFIER")
    THEN Ok(advance(src, P), VariableExpr(getCurrentLocation(P), P.current))
  ELSE IF check(P, "LPAREN") THEN parseGrouping(src, advance(src, P))
  ELSE Ok(P, Null)

\* location is taken before the match; previous is the matched token.
parsePrimary(src, P) ==
  IF P.current.type \in {"FALSE", "TRUE", "STRING"}
    THEN Ok(advance(src, P),
            LiteralExpr(getCurrentLocation(P), literalValue(P.current)))
  ELSE IF check(P, "NUMBER")
    THEN IF stodOutOfRange(P.current.lexeme)
         THEN Ends(advance(src, P), "throw")
         ELSE Ok(advance(src, P),
                 LiteralExpr(getCurrentLocation(P), literalValue(P.current)))
  ELSE IF check(P, "IDENTIFIER")
    THEN Ok(advance(src, P), VariableExpr(getCurrentLocation(P), P.current))
  ELSE IF check(P, "LPAREN") THEN parseGrouping(src, advance(src, P))
  ELSE Ok(error(P, "Expected expression."), Null)

\* '.' name: the access becomes a VariableExpr of the name; name is what
\* consume returned.
propertyAccess(name) ==
  Ok(name.P, VariableExpr(getCurrentLocation(name.P), name.tok))

\* The loop with '.' name leaving expr, the base, as it is.
callLoopKeepingBase(src, P, expr) ==
  IF P.current.type \in {"LPAREN", "DOT"}
  THEN Then(IF check(P, "LPAREN") THEN finishCall(src, advance(src, P), expr)
            ELSE Ok(consume(src, advance(src, P), "IDENTIFIER",
                            "Expected property name after '.'.").P, expr),
            LAMBDA r : callLoop(src, r.P, r.node))
  ELSE Ok(P, expr)

\* while (true): '(' -> finishCall, '.' -> property access, else break.
callLoop(src, P, expr) ==
  IF P.current.type \in {"LPAREN", "DOT"}
  THEN Then(IF check(P, "LPAREN") THEN finishCall(src, advance(src, P), expr)
            ELSE propertyAccess(
                   consume(src, advance(src, P), "IDENTIFIER",
                           "Expected property name after '.'.")),
            LAMBDA r : callLoop(src, r.P, r.node))
  ELSE Ok(P, expr)

parseCall(src, P) ==
  Then(parsePrimary(src, P), LAMBDA r : callLoop(src, r.P, r.node))

\* parseUnary() whose operand is a call, never a further unary expression.
parseUnaryOnce(src, P) ==
  IF P.current.type \in {"MINUS", "NOT"}
  THEN Then(parseCall(src, advance(src, P)), LAMBDA right :
         Then(location(right.P, right.node), LAMBDA l :
           Ok(l.P, UnaryExpr(l.loc, P.current, right.node))))
  ELSE parseCall(src, P)

\* op is previous after the match, the token that was current before it.
parseUnary(src, P) ==
  IF P.current.type \in {"MINUS", "NOT"}
  THEN Then(parseUnary(src, advance(src, P)), LAMBDA right :
         Then(location(right.P, right.node), LAMBDA l :
           Ok(l.P, UnaryExpr(l.loc, P.current, right.node))))
  ELSE parseCall(src, P)

\* The levels with the operators of parseTerm and parseFactor exchanged.
LevelOpsExchanged(n) ==
  CASE n = 1 -> {"OR"}
    [] n = 2 -> {"AND"}
    [] n = 3 -> {"EQ", "NEQ"}
    [] n = 4 -> {"GT", "GTE", "LT", "LTE"}
    [] n = 5 -> {"MULTIPLY", "DIVIDE", "MODULO"}
    [] n = 6 -> {"PLUS", "MINUS"}

\* The binary levels, lowest first: 1 parseLogicalOr, 2 parseLogicalAnd,
\* 3 parseEquality, 4 parseComparison, 5 parseTerm, 6 parseFactor.
LevelOps(n) ==
  CASE n = 1 -> {"OR"}
    [] n = 2 -> {"AND"}
    [] n = 3 -> {"EQ", "NEQ"}
    [] n = 4 -> {"GT", "GTE", "LT", "LTE"}
    [] n = 5 -> {"PLUS", "MINUS"}
    [] n = 6 -> {"MULTIPLY", "DIVIDE", "MODULO"}

\* The method a level calls for its operands: the next level, parseUnary
\* for parseFactor.
levelOperand(src, P, n) == binaryLevel(src, P, n + 1)

\* if (match(ops)) { op = previous; right = this level again;
\*   expr = BinaryExpr(expr->location, expr, op, right); }
binaryLoopRecursing(src, P, n, expr) ==
  IF P.current.type \in LevelOps(n)
  THEN Then(binaryLevel(src, advance(src, P), n), LAMBDA right :
         Then(location(right.P, expr), LAMBDA l :
           Ok(l.P, BinaryExpr(l.loc, expr, P.current, right.node))))
  ELSE Ok(P, expr)

\* while (match(ops)) { op = previous; right = operand();
\*   expr = BinaryExpr(expr->location, expr, op, right); }
binaryLoop(src, P, n, expr) ==
  IF P.current.type \in LevelOps(n)
  THEN Then(levelOperand(src, advance(src, P), n), LAMBDA right :
         Then(location(right.P, expr), LAMBDA l :
           binaryLoop(src, l.P, n,
                      BinaryExpr(l.loc, expr, P.current, right.node))))
  ELSE Ok(P, expr)

\* Each level is its operand method followed by its own loop, so level n is
\* parseUnary followed by the loops of levels 6, 5, ..., n in that order:
\* r is what level k + 1 returned.
binaryLevels(src, r, k, n) ==
  IF r.out # "ok" \/ k < n THEN r
  ELSE binaryLevels(src, binaryLoop(src, r.P, k, r.node), k - 1, n)

binaryLevel(src, P, n) == binaryLevels(src, parseUnary(src, P), 6, n)

parseLogicalOr(src, P) == binaryLevel(src, P, 1)

parseLogicalAnd(src, P) == binaryLevel(src, P, 2)

parseEquality(src, P) == binaryLevel(src, P, 3)

parseComparison(src, P) == binaryLevel(src, P, 4)

parseTerm(src, P) == binaryLevel(src, P, 5)

parseFactor(src, P) == binaryLevel(src, P, 6)

\* An assignment that keeps the right-hand side of an invalid target.
assignmentKeepsValue(expr, equals, value) ==
  IF expr.node.kind = "Variable"
  THEN Ok(value.P, BinaryExpr(expr.node.loc, expr.node, equals, value.node))
  ELSE Ok(error(value.P, "Invalid assignment target."), value.node)

\* value is what the recursive parseAssignment returned after the '='.
assignment(expr, equals, value) ==
  IF expr.node.kind = "Variable"
  THEN Ok(value.P, BinaryExpr(expr.node.loc, expr.node, equals, value.node))
  ELSE Ok(error(value.P, "Invalid assignment target."), expr.node)

\* parseAssignment() whose right-hand side is parseLogicalOr().
parseAssignmentOnce(src, P) ==
  Then(parseLogicalOr(src, P), LAMBDA expr :
    IF check(expr.P, "ASSIGN")
    THEN Then(parseLogicalOr(src, advance(src, expr.P)), LAMBDA value :
           assignment(expr, expr.P.current, value))
    ELSE expr)

parseAssignment(src, P) ==
  Then(parseLogicalOr(src, P), LAMBDA expr :
    IF check(expr.P, "ASSIGN")
    THEN Then(parseAssignment(src, advance(src, expr.P)), LAMBDA value :
           assignment(expr, expr.P.current, value))
    ELSE expr)

(***************************************************************************)
(* Statements and declarations (parser.cpp:115-306)                        *)
(*                                                                         *)
(* A loop of the form while (!check(RBRACE) && !check(EOF)) { body } whose *)
(* body returns with the lexer cursor and the current token where they     *)
(* were has consumed nothing; the parser is deterministic, so every later  *)
(* iteration does the same and the loop never exits: the method ends       *)
(* "hang".                                                                 *)
(***************************************************************************)

NoProgress(P, Q) == Q.lexer = P.lexer /\ Q.current = P.current

\* consume(type, message) as the last call before a node is returned.
consumeP(src, P, type, message) == consume(src, P, type, message).P

RECURSIVE blockLoop(_, _, _, _)

\* The loop of parseBlock and its closing consume.
blockLoop(src, P, loc, statements) ==
  IF ~check(P, "RBRACE") /\ ~check(P, "EOF_TOKEN")
  THEN Then(call("parseStatement", src, P), LAMBDA r :
         IF NoProgress(P, r.P) THEN Ends(r.P, "hang")
         ELSE blockLoop(src, r.P, loc, Append(statements, r.node)))
  ELSE Ok(consumeP(src, P, "RBRACE", "Expected '}' after block."),
          BlockStmt(loc, statements))

parseBlock(src, P) == blockLoop(src, P, getCurrentLocation(P), <<>>)

parseVarDeclaration(src, P) ==
  Let(consume(src, P, "IDENTIFIER", "Expected variable name."), LAMBDA name :
    Then(IF check(name.P, "ASSIGN")
         THEN call("parseExpression", src, advance(src, name.P))
         ELSE Ok(name.P, Null), LAMBDA initializer :
      Ok(consumeP(src, initializer.P, "SEMICOLON",
                  "Expected ';' after variable declaration."),
         VarStmt(getCurrentLocation(P), name.tok, initializer.node))))

parseIfStatement(src, P) ==
  Then(call("parseExpression", src,
         consumeP(src, P, "LPAREN", "Expected '(' after 'if'.")),
       LAMBDA condition :
    Then(call("parseStatement", src,
           consumeP(src, condition.P, "RPAREN",
                    "Expected ')' after if condition.")),
         LAMBDA thenBranch :
      Then(IF check(thenBranch.P, "ELSE")
           THEN call("parseStatement", src, advance(src, thenBranch.P))
           ELSE Ok(thenBranch.P, Null), LAMBDA elseBranch :
        Ok(elseBranch.P,
           IfStmt(getCurrentLocation(P), condition.node, thenBranch.node,
                  elseBranch.node)))))

parseWhileStatement(src, P) ==
  Then(call("parseExpression", src,
         consumeP(src, P, "LPAREN", "Expected '(' after 'while'.")),
       LAMBDA condition :
    Then(call("parseStatement", src,
           consumeP(src, condition.P, "RPAREN",
                    "Expected ')' after while condition.")),
         LAMBDA body :
      Ok(body.P,
         WhileStmt(getCurrentLocation(P), condition.node, body.node))))

parseReturnStatement(src, P) ==
  Then(IF ~check(P, "SEMICOLON") THEN call("parseExpression", src, P)
       ELSE Ok(P, Null), LAMBDA value :
    Ok(consumeP(src, value.P, "SEMICOLON",
                "Expected ';' after return value."),
       ReturnStmt(getCurrentLocation(P), P.previous, value.node)))

parseSayStatement(src, P) ==
  Then(call("parseExpression", src, P), LAMBDA message :
    Ok(consumeP(src, message.P, "SEMICOLON", "Expected ';' after message."),
       SayStmt(getCurrentLocation(P), message.node)))

parseGotoStatement(src, P) ==
  Then(call("parseExpression", src,
         consumeP(src, P, "LPAREN", "Expected '(' after 'goto'.")),
       LAMBDA destination :
    Ok(consumeP(src,
         consumeP(src, destination.P, "RPAREN",
                  "Expected ')' after goto destination."),
         "SEMICOLON", "Expected ';' after goto statement."),
       GotoStmt(getCurrentLocation(P), destination.node)))

parseExpressionStatement(src, P) ==
  Then(call("parseExpression", src, P), LAMBDA expr :
    Ok(consumeP(src, expr.P, "SEMICOLON", "Expected ';' after expression."),
       ExpressionStmt(getCurrentLocation(P), expr.node)))

\* The rule a statement's first token selects, after match() consumed it.
statementRule(src, P, type) ==
  CASE type = "IF" -> parseIfStatement(src, P)
    [] type = "WHILE" -> parseWhileStatement(src, P)
    [] type = "VAR" -> parseVarDeclaration(src, P)
    [] type = "LBRACE" -> parseBlock(src, P)
    [] type = "RETURN" -> parseReturnStatement(src, P)
    [] type = "SAY" -> parseSayStatement(src, P)
    [] type = "GOTO" -> parseGotoStatement(src, P)

parseStatement(src, P) ==
  IF P.current.type \in {"IF", "WHILE", "VAR", "LBRACE", "RETURN", "SAY",
                         "GOTO"}
  THEN statementRule(src, advance(src, P), P.current.type)
  ELSE parseExpressionStatement(src, P)

\* propertyName ':' expression ';' (in a room or an item body); node is the
\* pair pushed onto properties.
parseProperty(src, P) ==
  Let(consume(src, P, "IDENTIFIER", "Expected property name."),
      LAMBDA propertyName :
    Then(call("parseExpression", src,
           consumeP(src, propertyName.P, "COLON",
                    "Expected ':' after property name.")),
         LAMBDA value :
      Ok(consumeP(src, value.P, "SEMICOLON",
                  "Expected ';' after property value."),
         <<propertyName.tok.lexeme, value.node>>)))

RECURSIVE itemLoop(_, _, _, _, _)
itemLoop(src, P, loc, name, properties) ==
  IF ~check(P, "RBRACE") /\ ~check(P, "EOF_TOKEN")
  THEN Then(parseProperty(src, P), LAMBDA r :
         IF NoProgress(P, r.P) THEN Ends(r.P, "hang")
         ELSE itemLoop(src, r.P, loc, name, Append(properties, r.node)))
  ELSE Ok(consumeP(src, P, "RBRACE", "Expected '}' after item body."),
          Item(loc, name, properties))

parseItem(src, P) ==
  Let(consume(src, P, "IDENTIFIER", "Expected item name."), LAMBDA name :
    itemLoop(src,
             consumeP(src, name.P, "LBRACE", "Expected '{' after item name."),
             getCurrentLocation(P), name.tok, <<>>))

\* The 'when' branch of parseRoom; node is the pair pushed onto events.
parseEvent(src, P) ==
  Let(consume(src, P, "IDENTIFIER", "Expected event type after 'when'."),
      LAMBDA eventType :
    Then(parseBlock(src, eventType.P), LAMBDA body :
      Ok(body.P, <<eventType.tok.lexeme, body.node>>)))

\* One pass of the body of parseRoom's loop.
roomMember(src, P) ==
  IF check(P, "ITEM") THEN parseItem(src, advance(src, P))
  ELSE IF check(P, "WHEN") THEN parseEvent(src, advance(src, P))
  ELSE parseProperty(src, P)

RECURSIVE roomLoop(_, _, _, _, _, _, _)
roomLoop(src, P, loc, name, properties, items, events) ==
  IF ~check(P, "RBRACE") /\ ~check(P, "EOF_TOKEN")
  THEN Then(roomMember(src, P), LAMBDA r :
         IF NoProgress(P, r.P) THEN Ends(r.P, "hang")
         ELSE IF check(P, "ITEM")
           THEN roomLoop(src, r.P, loc, name, properties,
                         Append(items, r.node), events)
         ELSE IF check(P, "WHEN")
           THEN roomLoop(src, r.P, loc, name, properties, items,
                         Append(events, r.node))
         ELSE roomLoop(src, r.P, loc, name, Append(properties, r.node),
                       items, events))
  ELSE Ok(consumeP(src, P, "RBRACE", "Expected '}' after room body."),
          Room(loc, name, properties, items, events))

parseRoom(src, P) ==
  Let(consume(src, P, "IDENTIFIER", "Expected room name."), LAMBDA name :
    roomLoop(src,
             consumeP(src, name.P, "LBRACE", "Expected '{' after room name."),
             getCurrentLocation(P), name.tok, <<>>, <<>>, <<>>))

\* do { parameters.push_back(consume(IDENTIFIER, ...)); }
\* while (match(COMMA));
RECURSIVE parameterList(_, _, _)
parameterList(src, P, parameters) ==
  Let(consume(src, P, "IDENTIFIER", "Expected parameter name."), LAMBDA c :
    IF check(c.P, "COMMA")
    THEN parameterList(src, advance(src, c.P), Append(parameters, c.tok))
    ELSE Ok(c.P, Append(parameters, c.tok)))

\* parseFunction() that leaves the '{' of the body to the block parser.
parseFunctionKeepingBrace(src, P) ==
  Let(consume(src, P, "IDENTIFIER", "Expected function name."), LAMBDA name :
    Let(consumeP(src, name.P, "LPAREN", "Expected '(' after function name."),
        LAMBDA P1 :
      Let(IF ~check(P1, "RPAREN") THEN parameterList(src, P1, <<>>)
          ELSE Ok(P1, <<>>), LAMBDA parameters :
        Then(parseBlock(src,
               consumeP(src, parameters.P, "RPAREN",
                        "Expected ')' after parameters.")),
             LAMBDA body :
          Ok(body.P, FunctionStmt(getCurrentLocation(P), name.tok,
                                  parameters.node, body.node))))))

parseFunction(src, P) ==
  Let(consume(src, P, "IDENTIFIER", "Expected function name."), LAMBDA name :
    Let(consumeP(src, name.P, "LPAREN", "Expected '(' after function name."),
        LAMBDA P1 :
      Let(IF ~check(P1, "RPAREN") THEN parameterList(src, P1, <<>>)
          ELSE Ok(P1, <<>>), LAMBDA parameters :
        Then(parseBlock(src,
               consumeP(src,
                 consumeP(src, parameters.P, "RPAREN",
                          "Expected ')' after parameters."),
                 "LBRACE", "Expected '{' before function body.")),
             LAMBDA body :
          Ok(body.P, FunctionStmt(getCurrentLocation(P), name.tok,
                                  parameters.node, body.node))))))

parseExpression(src, P) == parseAssignment(src, P)

\* The try block of parseProgram's loop: node is the Room, Function or
\* Statement handed to addRoom, addFunction or addStatement.
topLevelItem(src, P) ==
  IF check(P, "ROOM") THEN parseRoom(src, advance(src, P))
  ELSE IF check(P, "FUNCTION") THEN parseFunction(src, advance(src, P))
  ELSE call("parseStatement", src, P)

call(rule, src, P) ==
  CASE rule = "parseExpression" -> parseExpression(src, P)
    [] rule = "parseStatement" -> parseStatement(src, P)
    [] rule = "topLevelItem" -> topLevelItem(src, P)

(***************************************************************************)
(* Source texts                                                            *)
(***************************************************************************)

\* The longest text of CoreWords the model parses, in words.
MaxWords == 3

\* The longest run of SyncWords after an out-of-range literal, in words.
MaxSyncWords == 3

Sp == <<" ">>

\* words, with one space between neighbours.
RECURSIVE Join(_)
Join(words) ==
  IF words = <<>> THEN <<>>
  ELSE IF Len(words) = 1 THEN words[1]
  ELSE words[1] \o Sp \o Join(Tail(words))

WordsUpTo(vocabulary, n) ==
  UNION {[1..k -> vocabulary] : k \in 0..n}

\* A literal std::stod rejects: one digit more than a double can hold.
HugeNumber == [i \in 1..(DBL_MAX_10_EXP + 2) |-> "9"]

W_var == <<"v","a","r">>
W_say == <<"s","a","y">>
W_room == <<"r","o","o","m">>
W_item == <<"i","t","e","m">>
W_function == <<"f","u","n","c","t","i","o","n">>
W_if == <<"i","f">>
W_else == <<"e","l","s","e">>
W_while == <<"w","h","i","l","e">>
W_return == <<"r","e","t","u","r","n">>
W_goto == <<"g","o","t","o">>
W_when == <<"w","h","e","n">>
W_entered == <<"e","n","t","e","r","e","d">>
W_for == <<"f","o","r">>
W_true == <<"t","r","u","e">>
W_false == <<"f","a","l","s","e">>
W_not == <<"n","o","t">>
W_and == <<"a","n","d">>
W_or == <<"o","r">>

CoreWords ==
  { W_var, <<"x">>, <<"=">>, <<"1">>, <<";">>, <<"-">>, <<"(">>, <<")">>,
    <<"{">>, <<"}">> }

SyncWords ==
  { W_room, W_item, W_function, W_var, W_if, W_while, W_return, W_say,
    W_goto, W_else, <<";">>, <<"x">> }

CoreSources == {Join(ws) : ws \in WordsUpTo(CoreWords, MaxWords)}

\* An out-of-range literal, alone or in a statement, and what follows it.
SyncSources ==
  {Join(<<pre \o HugeNumber>> \o ws) :
     pre \in {<<>>, <<"x","=">>, <<"{">>},
     ws \in WordsUpTo(SyncWords, MaxSyncWords)}

\* A room with one property, one item and one `when entered` event.
RoomEntered ==
  Join(<< W_room, <<"R">>, <<"{">>, <<"n">>, <<":">>, <<"1">>, <<";">>,
          W_item, <<"k">>, <<"{">>, <<"w">>, <<":">>, <<"2">>, <<";">>, <<"}">>,
          W_when, W_entered, <<"{">>, W_say, <<"3">>, <<";">>, <<"}">>,
          <<"}">> >>)

\* The same room with an event whose name is an identifier.
RoomEvent ==
  Join(<< W_room, <<"R">>, <<"{">>, <<"n">>, <<":">>, <<"1">>, <<";">>,
          W_item, <<"k">>, <<"{">>, <<"w">>, <<":">>, <<"2">>, <<";">>, <<"}">>,
          W_when, <<"e">>, <<"{">>, W_say, <<"3">>, <<";">>, <<"}">>,
          <<"}">> >>)

\* function f(a, b) { return a; }
FunctionExample ==
  Join(<< W_function, <<"f">>, <<"(">>, <<"a">>, <<",">>, <<"b">>, <<")">>,
          <<"{">>, W_return, <<"a">>, <<";">>, <<"}">> >>)

\* if (x) { say 1; } else x = f(1).g;  while (x) goto (x);
StatementsExample ==
  Join(<< W_if, <<"(">>, <<"x">>, <<")">>, <<"{">>, W_say, <<"1">>, <<";">>,
          <<"}">>, W_else, <<"x">>, <<"=">>, <<"f">>, <<"(">>, <<"1">>,
          <<")">>, <<".">>, <<"g">>, <<";">>,
          W_while, <<"(">>, <<"x">>, <<")">>, W_goto, <<"(">>, <<"x">>,
          <<")">>, <<";">> >>)

\* Texts the grammar of the language derives.
ValidSources == {RoomEvent, FunctionExample, StatementsExample}

\* say "abc
SayUnterminated == W_say \o <<" ", "\"", "a", "b", "c">>

\* var ;  var x = 1;
VarMissingName ==
  W_var \o <<" ", ";", " ", " ">> \o W_var \o
  <<" ", "x", " ", "=", " ", "1", ";">>

\* 1 = 2; x;
AssignToLiteral == <<"1", " ", "=", " ", "2", ";", " ", "x", ";">>

\* a % b ;
ModuloExample ==
  Join(<< <<"a">>, <<"%">>, <<"b">>, <<";">> >>)

ScenarioSources ==
  ValidSources \cup {RoomEntered, SayUnterminated, VarMissingName,
                     AssignToLiteral, ModuloExample}

\* The binary operators as they are written.
BinaryOperators ==
  { <<"o","r">>, <<"a","n","d">>, <<"=","=">>, <<"!","=">>, <<"<">>, <<">">>,
    <<"<","=">>, <<">","=">>, <<"+">>, <<"-">>, <<"*">>, <<"/">> }

\* x op1 y op2 z ;
OperatorSource(op1, op2) ==
  Join(<< <<"x">>, op1, <<"y">>, op2, <<"z">>, <<";">> >>)

\* 1 + 2 * 3 ;
OnePlusTwoTimesThree ==
  Join(<< <<"1">>, <<"+">>, <<"2">>, <<"*">>, <<"3">>, <<";">> >>)

OperatorSources ==
  {OperatorSource(op1, op2) : op1, op2 \in BinaryOperators}
    \cup {OnePlusTwoTimesThree}

\* a = b op c ;
AssignOperatorSource(op) ==
  Join(<< <<"a">>, <<"=">>, <<"b">>, op, <<"c">>, <<";">> >>)

\* v[1] = v[2] = ... = e ;
RECURSIVE AssignChain(_, _)
AssignChain(v, e) ==
  IF v = <<>> THEN e \o Sp \o <<";">>
  ELSE Head(v) \o Sp \o <<"=">> \o Sp \o AssignChain(Tail(v), e)

\* The variables of the assignment chains.
ChainTargets ==
  { << <<"a">> >>, << <<"a">>, <<"b">> >>, << <<"a">>, <<"b">>, <<"c">> >> }

\* The last right-hand sides of the assignment chains.
ChainValues == { <<"1">>, <<"d">> }

AssignmentSources ==
  {AssignOperatorSource(op) : op \in BinaryOperators}
    \cup {AssignChain(v, e) : v \in ChainTargets, e \in ChainValues}

\* The bases of the property accesses: a variable, a call result, a
\* parenthesized expression, another access.
AccessBases ==
  { << <<"a">> >>,
    << <<"f">>, <<"(">>, <<"x">>, <<")">> >>,
    << <<"(">>, <<"a">>, <<"+">>, <<"1">>, <<")">> >>,
    << <<"a">>, <<".">>, <<"c">> >> }

\* What follows the accessed name b: nothing, an assignment, a call.
AccessUses ==
  { <<>>, << <<"=">>, <<"1">> >>, << <<"(">>, <<"c">>, <<")">> >> }

\* base . b use ;
AccessSource(base, use) ==
  Join(base \o << <<".">>, <<"b">> >> \o use \o << <<";">> >>)

AccessSources ==
  {AccessSource(base, use) : base \in AccessBases, use \in AccessUses}

PrefixOperators == { <<"-">>, <<"!">>, W_not }

\* op1 op2 x ;
PrefixSource(op1, op2) == Join(<< op1, op2, <<"x">>, <<";">> >>)

\* op a binary b ;
PrefixOperandSource(op, binary) ==
  Join(<< op, <<"a">>, binary, <<"b">>, <<";">> >>)

\* op x ;
OnePrefixSource(op) == Join(<< op, <<"x">>, <<";">> >>)

PrefixSources ==
  {PrefixSource(op1, op2) : op1, op2 \in PrefixOperators}
    \cup {PrefixOperandSource(op, binary) :
            op \in PrefixOperators, binary \in BinaryOperators}
    \cup {OnePrefixSource(op) : op \in PrefixOperators}

\* The longest body of the function declarations, in statements.
MaxBody == 2

\* The parameter lists of the function declarations.
FunctionParameters ==
  { <<>>, << <<"a">> >>, << <<"a">>, <<"b">> >>,
    << <<"a">>, <<"b">>, <<"c">> >> }

\* return a ;   say 1 ;   x = 1 ;   { }
S_return == << W_return, <<"a">>, <<";">> >>
S_say == << W_say, <<"1">>, <<";">> >>
S_assign == << <<"x">>, <<"=">>, <<"1">>, <<";">> >>
S_block == << <<"{">>, <<"}">> >>

BodyStatements == {S_return, S_say, S_assign, S_block}

FunctionBodies == WordsUpTo(BodyStatements, MaxBody)

\* What follows the declaration: nothing, or the statement `y ;`.
FunctionFollowers == { <<>>, << <<"y">>, <<";">> >> }

\* names with a ',' between neighbours.
RECURSIVE Separated(_)
Separated(names) ==
  IF Len(names) <= 1 THEN names
  ELSE <<names[1], <<",">> >> \o Separated(Tail(names))

\* The words of the statements of body, in their order.
RECURSIVE BodyWords(_)
BodyWords(body) ==
  IF body = <<>> THEN <<>> ELSE Head(body) \o BodyWords(Tail(body))

\* function f ( parameters ) { body } follower
FunctionSource(parameters, body, follower) ==
  Join(<< W_function, <<"f">>, <<"(">> >> \o Separated(parameters)
         \o << <<")">>, <<"{">> >> \o BodyWords(body) \o << <<"}">> >>
         \o follower)

FunctionSources ==
  {FunctionSource(parameters, body, follower) :
     parameters \in FunctionParameters, body \in FunctionBodies,
     follower \in FunctionFollowers}

Sources ==
  CoreSources \cup SyncSources \cup ScenarioSources \cup OperatorSources
    \cup AssignmentSources \cup AccessSources \cup PrefixSources
    \cup FunctionSources

(***************************************************************************)
(* The parse as a state machine                                            *)
(*                                                                         *)
(* pc: "new" (the Lexer is built, the Parser is not), "loop" (at the test  *)
(* of parseProgram's loop), "catch" (an exception reached the catch        *)
(* clause), "sync" (inside synchronize's loop), "done" (parse() returned   *)
(* the Program), "hung" (a loop inside a rule method never exits),         *)
(* "crashed" (the process died).                                           *)
(*                                                                         *)
(* cerr is what error() has written to std::cerr, one record per call;     *)
(* nullDeref records that a location was read through an empty pointer;    *)
(* tokens is the vector the last tokenize() returned (the lexer on its own *)
(* sets it, the parser never calls tokenize()).  ubOutcome is what this     *)
(* build does on a read through an empty pointer.  trace holds the steps   *)
(* of the parser that is running, and first the run of the parser before   *)
(* it when a second parser is built over a lexer of its own on the same    *)
(* text (main.cpp builds lexer2 for its parser in this way).               *)
(***************************************************************************)

VARIABLES source, lexer, current, previous, errorOccurred, cerr, nullDeref,
          program, tokens, pc, ubOutcome, trace, first

vars == <<source, lexer, current, previous, errorOccurred, cerr, nullDeref,
          program, tokens, pc, ubOutcome, trace, first>>

\* Before a second parser is built there is no first run to look back at.
NoRun == [pc |-> "none"]

\* The step just taken by the running parser, added to trace.
Recorded ==
  trace' = Append(trace, [pc |-> pc', current |-> current',
                          errorOccurred |-> errorOccurred'])

\* The parser and its lexer as the record the rule methods work on.
ParserState(ub) ==
  [lexer |-> lexer, current |-> current, previous |-> previous,
   errorOccurred |-> errorOccurred, cerr |-> cerr, nullDeref |-> nullDeref,
   ub |-> ub]

SetParser(P) ==
  /\ lexer' = P.lexer
  /\ current' = P.current
  /\ previous' = P.previous
  /\ errorOccurred' = P.errorOccurred
  /\ cerr' = P.cerr
  /\ nullDeref' = P.nullDeref

\* addRoom / addFunction / addStatement: push_back onto one sequence.
push_back(seq, node) == IF Len(seq) < MaxProgram THEN Append(seq, node) ELSE seq

Init ==
  /\ source \in Sources
  /\ lexer = LexerNew
  /\ current = NoToken
  /\ previous = NoToken
  /\ errorOccurred = FALSE
  /\ cerr = <<>>
  /\ nullDeref = FALSE
  /\ program = [rooms |-> <<>>, functions |-> <<>>, statements |-> <<>>]
  /\ tokens = <<>>
  /\ pc = "new"
  /\ ubOutcome \in UBOutcomes
  /\ trace = <<>>
  /\ first = NoRun

\* Parser::Parser: advance().
ParserNew ==
  /\ pc = "new"
  /\ SetParser(advance(source, ParserState("crash")))
  /\ pc' = "loop"
  /\ UNCHANGED <<source, program, tokens, ubOutcome, first>>
  /\ Recorded

\* The end of one pass of parseProgram's loop whose try block ended as r.
\* A pass that returns with the lexer cursor and the current token where they
\* were has consumed nothing: every later pass does the same (each adding one
\* more node to program), and the loop never exits.
EndTopLevel(r) ==
  /\ SetParser(r.P)
  /\ pc' = CASE r.out = "ok" ->
                  IF r.P.lexer = lexer /\ r.P.current = current THEN "hung"
                  ELSE "loop"
             [] r.out = "throw" -> "catch"
             [] r.out = "hang" -> "hung"
             [] r.out = "crash" -> "crashed"
  /\ program' =
       IF r.out # "ok" THEN program
       ELSE IF current.type = "ROOM"
         THEN [program EXCEPT !.rooms = push_back(@, r.node)]
       ELSE IF current.type = "FUNCTION"
         THEN [program EXCEPT !.functions = push_back(@, r.node)]
       ELSE [program EXCEPT !.statements = push_back(@, r.node)]

\* One iteration of parseProgram's loop, up to the catch clause.
ParseTopLevel ==
  /\ pc = "loop"
  /\ ~(current.type = "EOF_TOKEN")
  /\ EndTopLevel(call("topLevelItem", source, ParserState(ubOutcome)))
  /\ UNCHANGED <<source, tokens, ubOutcome, first>>
  /\ Recorded

\* parseProgram's loop ends at end-of-input and parse() returns the Program.
ParseReturn ==
  /\ pc = "loop"
  /\ current.type = "EOF_TOKEN"
  /\ pc' = "done"
  /\ UNCHANGED <<source, lexer, current, previous, errorOccurred, cerr,
                 nullDeref, program, tokens, ubOutcome, first>>
  /\ Recorded

\* The keywords of synchronize's switch without goto.
SyncKeywordsNoGoto ==
  {"ROOM", "ITEM", "FUNCTION", "VAR", "IF", "WHILE", "RETURN", "SAY"}

\* The token kinds at which synchronize returns without consuming.
SyncKeywords ==
  {"ROOM", "ITEM", "FUNCTION", "VAR", "IF", "WHILE", "RETURN", "SAY", "GOTO"}

\* catch (...) { synchronize(); }: its first statement, advance().
SynchronizeEnter ==
  /\ pc = "catch"
  /\ SetParser(advance(source, ParserState("crash")))
  /\ pc' = "sync"
  /\ UNCHANGED <<source, program, tokens, ubOutcome, first>>
  /\ Recorded

\* Whether synchronize's loop is left at its test or at one of its returns.
SynchronizeStops(cur, prev) ==
  \/ cur.type = "EOF_TOKEN"
  \/ prev.type = "SEMICOLON"
  \/ cur.type \in SyncKeywords

\* One pass of synchronize's loop that reaches its advance().
SynchronizeSkip ==
  /\ pc = "sync"
  /\ ~SynchronizeStops(current, previous)
  /\ SetParser(advance(source, ParserState("crash")))
  /\ pc' = "sync"
  /\ UNCHANGED <<source, program, tokens, ubOutcome, first>>
  /\ Recorded

\* synchronize returns, back to the test of parseProgram's loop.
SynchronizeReturn ==
  /\ pc = "sync"
  /\ SynchronizeStops(current, previous)
  /\ pc' = "loop"
  /\ UNCHANGED <<source, lexer, current, previous, errorOccurred, cerr,
                 nullDeref, program, tokens, ubOutcome, first>>
  /\ Recorded

Next ==
  \/ ParserNew
  \/ ParseTopLevel
  \/ ParseReturn
  \/ SynchronizeEnter
  \/ SynchronizeSkip
  \/ SynchronizeReturn

Spec == Init /\ [][Next]_vars

(***************************************************************************)
(* Two parsers on one text                                                 *)
(*                                                                         *)
(* When the first parser has ended, a second Lexer is built over the same  *)
(* text and a second Parser over it, as main.cpp builds lexer2 and parser; *)
(* first keeps what the first parser did.                                  *)
(***************************************************************************)

\* The cursor of a second lexer over the first parser's lexer: where that
\* lexer stands.
SharedLexer == lexer

\* Lexer lexer2(source, argv[1]): the cursor of a newly built lexer.
SecondLexer == LexerNew

\* Lexer lexer2(source, ...); Parser parser(lexer2); before its constructor
\* body runs.
SecondParser ==
  /\ pc \in {"done", "hung", "crashed"}
  /\ first = NoRun
  /\ first' = [pc |-> pc, trace |-> trace, program |-> program,
               errorOccurred |-> errorOccurred]
  /\ trace' = <<>>
  /\ lexer' = SecondLexer
  /\ current' = NoToken
  /\ previous' = NoToken
  /\ errorOccurred' = FALSE
  /\ cerr' = <<>>
  /\ nullDeref' = FALSE
  /\ program' = [rooms |-> <<>>, functions |-> <<>>, statements |-> <<>>]
  /\ pc' = "new"
  /\ UNCHANGED <<source, tokens, ubOutcome>>

TwoNext ==
  \/ ParserNew
  \/ ParseTopLevel
  \/ ParseReturn
  \/ SynchronizeEnter
  \/ SynchronizeSkip
  \/ SynchronizeReturn
  \/ SecondParser

TwoSpec == Init /\ [][TwoNext]_vars

(***************************************************************************)
(* The lexer on its own                                                    *)
(*                                                                         *)
(* A Lexer over source whose nextToken, peekToken and tokenize are called  *)
(* in any order.  current is the token the lexer produced last, tokens the *)
(* vector the last tokenize returned, pc the method called last ("lexer"   *)
(* before the first call).                                                 *)
(***************************************************************************)

\* The longest text given to the lexer alone, in characters.
MaxChars == 3

LexChars == {"a", "1", " ", "\n", "/", "\"", "\\", "=", "%", "."}

\* The longest text of digits, '.' and '-' given to the lexer, in characters.
MaxNumberChars == 5

\* 12.
TwelveDot == <<"1", "2", ".">>

\* 1.5.3
OneFiveThree == <<"1", ".", "5", ".", "3">>

NumberTexts ==
  UNION {[1..n -> {"1", ".", "-"}] : n \in 1..MaxNumberChars}
    \cup {TwelveDot, OneFiveThree}

\* The words the language reserves, each with the kind of its token.
ReservedWords ==
  { <<W_room, "ROOM">>, <<W_item, "ITEM">>, <<W_var, "VAR">>,
    <<W_function, "FUNCTION">>, <<W_if, "IF">>, <<W_else, "ELSE">>,
    <<W_while, "WHILE">>, <<W_for, "FOR">>, <<W_return, "RETURN">>,
    <<W_when, "WHEN">>, <<W_entered, "ENTERED">>, <<W_say, "SAY">>,
    <<W_goto, "GOTO">>, <<W_true, "TRUE">>, <<W_false, "FALSE">>,
    <<W_not, "NOT">>, <<W_and, "AND">>, <<W_or, "OR">> }

Alphabet ==
  <<"a","b","c","d","e","f","g","h","i","j","k","l","m",
    "n","o","p","q","r","s","t","u","v","w","x","y","z">>

Capitals ==
  <<"A","B","C","D","E","F","G","H","I","J","K","L","M",
    "N","O","P","Q","R","S","T","U","V","W","X","Y","Z">>

UpperCase(c) == Capitals[CHOOSE i \in 1..Len(Alphabet) : Alphabet[i] = c]

\* Each reserved word: as it is, with a capital first letter, in capitals,
\* with a letter, a digit or a '_' after it, with a '_' before it, without
\* its last letter, and before a '.'.
WordTexts ==
  UNION {{w[1],
          [w[1] EXCEPT ![1] = UpperCase(@)],
          [i \in 1..Len(w[1]) |-> UpperCase(w[1][i])],
          w[1] \o <<"s">>,
          w[1] \o <<"1">>,
          w[1] \o <<"_">>,
          <<"_">> \o w[1],
          SubSeq(w[1], 1, Len(w[1]) - 1),
          w[1] \o <<".">>} : w \in ReservedWords}

\* The longest text of '/', newlines, quotes and a letter given to the
\* lexer, in characters.
MaxCommentChars == 5

CommentTexts ==
  UNION {[1..n -> {"/", "\n", "\"", "a"}] : n \in 1..MaxCommentChars}

\* The longest text of '=', '!', '<' and '>' given to the lexer, in
\* characters.
MaxOperatorChars == 3

OperatorTexts ==
  UNION {[1..n -> {"=", "!", "<", ">"}] : n \in 1..MaxOperatorChars}

\* The longest text with characters of no token given to the lexer, in
\* characters.
MaxStrayChars == 3

StrayTexts ==
  UNION {[1..n -> {"@", "#", "a", "=", " "}] : n \in 1..MaxStrayChars}

LexSources ==
  UNION {[1..n -> LexChars] : n \in 0..MaxChars}
    \cup NumberTexts \cup WordTexts \cup CommentTexts \cup OperatorTexts
    \cup StrayTexts

LexPcs == {"lexer", "nextToken", "peekToken", "tokenize"}

LexInit ==
  /\ source \in LexSources
  /\ lexer = LexerNew
  /\ current = NoToken
  /\ previous = NoToken
  /\ errorOccurred = FALSE
  /\ cerr = <<>>
  /\ nullDeref = FALSE
  /\ program = [rooms |-> <<>>, functions |-> <<>>, statements |-> <<>>]
  /\ tokens = <<>>
  /\ pc = "lexer"
  /\ ubOutcome = "crash"
  /\ trace = <<>>
  /\ first = NoRun

\* A call of nextToken or peekToken that ended as r.
LexReturn(r) ==
  /\ lexer' = r.L
  /\ current' = r.tok
  /\ UNCHANGED <<source, previous, errorOccurred, cerr, nullDeref, program,
                 tokens, ubOutcome, trace, first>>

LexNextToken ==
  /\ pc \in LexPcs
  /\ LexReturn(nextToken(source, lexer))
  /\ pc' = "nextToken"

LexPeekToken ==
  /\ pc \in LexPcs
  /\ LexReturn(peekToken(source, lexer))
  /\ pc' = "peekToken"

\* A call of tokenize that ended as r.
TokenizeReturn(r) ==
  /\ lexer' = r.L
  /\ tokens' = r.tokens
  /\ current' = r.tokens[Len(r.tokens)]
  /\ UNCHANGED <<source, previous, errorOccurred, cerr, nullDeref, program,
                 ubOutcome, trace, first>>

LexTokenize ==
  /\ pc \in LexPcs
  /\ TokenizeReturn(tokenize(source, lexer))
  /\ pc' = "tokenize"

LexNext ==
  \/ LexNextToken
  \/ LexPeekToken
  \/ LexTokenize

LexSpec == LexInit /\ [][LexNext]_vars

(***************************************************************************)
(* Properties of the lexer                                                 *)
(***************************************************************************)

\* The lexer has produced an end-of-input token and stands at the end.
EndReached == current.type = "EOF_TOKEN" /\ isAtEnd(source, lexer)

\* C16: once the lexer has returned an end-of-input token, every later
\* nextToken() returns an end-of-input token with the same line and column,
\* every later tokenize() returns just that token, and the cursor stays.
C16_EndIdempotent ==
  [][EndReached =>
       /\ lexer'.position = lexer.position
       /\ lexer'.line = lexer.line
       /\ lexer'.column = lexer.column
       /\ current'.type = "EOF_TOKEN"
       /\ current'.line = current.line
       /\ current'.column = current.column
       /\ pc' = "tokenize" => tokens' = <<current'>>]_vars

\* C16's case: tokenize() called after nextToken() had returned end-of-input.
C16_Witness ==
  /\ pc = "tokenize"
  /\ Len(source) = MaxChars
  /\ Len(tokens) = 1
  /\ current.type = "EOF_TOKEN"

\* C17: peekToken() leaves position, line and column as they were, and the
\* nextToken() that follows it returns the token peekToken() returned.
C17_PeekToken ==
  [][/\ pc' = "peekToken" =>
          /\ lexer'.position = lexer.position
          /\ lexer'.line = lexer.line
          /\ lexer'.column = lexer.column
     /\ (pc = "peekToken" /\ pc' = "nextToken") => current' = current]_vars

\* C17's case: nextToken() has moved the cursor after a peekToken().
C17_Witness ==
  /\ pc = "nextToken"
  /\ current.type = "NUMBER"
  /\ lexer.position = MaxChars
  /\ lexer.start > 0

\* The i-th token nextToken() produces from the cursor L on.
RECURSIVE NthToken(_, _, _)
NthToken(src, L, i) ==
  IF i = 1 THEN nextToken(src, L).tok
  ELSE NthToken(src, nextToken(src, L).L, i - 1)

\* C18: tokenize() returns, for every text and from every position, the
\* tokens nextToken() would produce from there, in order; the sequence is not
\* empty, its last element is end-of-input and no other element is.
C18_Tokenize ==
  [][LET result == tokenize(source, lexer).tokens
     IN /\ Len(result) >= 1
        /\ result[Len(result)].type = "EOF_TOKEN"
        /\ \A i \in 1..(Len(result) - 1) : result[i].type # "EOF_TOKEN"
        /\ \A i \in 1..Len(result) :
             result[i] = NthToken(source, lexer, i)
        /\ pc' = "tokenize" => tokens' = result]_vars

\* C18's case: tokenize() has returned several tokens.
C18_Witness == pc = "tokenize" /\ Len(tokens) = MaxChars

\* gap holds only whitespace and // comments, each comment running to the
\* end of its line or of gap.
RECURSIVE Elided(_)
Elided(gap) ==
  IF gap = <<>> THEN TRUE
  ELSE IF gap[1] \in {" ", "\r", "\t", "\n"} THEN Elided(Tail(gap))
  ELSE IF Len(gap) >= 2 /\ gap[1] = "/" /\ gap[2] = "/"
    THEN IF \E i \in 1..Len(gap) : gap[i] = "\n"
         THEN Elided(SubSeq(gap,
                            CHOOSE i \in 1..Len(gap) :
                              /\ gap[i] = "\n"
                              /\ \A j \in 1..(i - 1) : gap[j] # "\n",
                            Len(gap)))
         ELSE TRUE
  ELSE FALSE

\* C19: the text of a token that is no lex-error token is the part of the
\* source from start to position; it begins at or after the end of the token
\* before it, what lies between the two is only whitespace and // comments,
\* and the end-of-input token stands at the end of the source.
C19_RoundTrip ==
  [][(pc' = "nextToken" /\ current'.type # "UNKNOWN") =>
       /\ lexer.position <= lexer'.start
       /\ lexer'.start <= lexer'.position
       /\ current'.lexeme =
            SubSeq(source, lexer'.start + 1, lexer'.position)
       /\ Elided(SubSeq(source, lexer.position + 1, lexer'.start))
       /\ current'.type = "EOF_TOKEN" => lexer'.position = Len(source)]_vars

\* C19's case: a token returned after a comment and a line end.
C19_Witness ==
  /\ pc = "nextToken"
  /\ source = <<"/", "/", "\n">> \/ source = <<"/", "/", "a">>
  /\ current.type = "EOF_TOKEN"

C27_Cursor ==
  [][/\ 0 <= lexer'.start
     /\ lexer'.start <= lexer'.position
     /\ lexer'.position <= Len(source)
     /\ pc' = "nextToken" =>
          /\ lexer'.position >= lexer.position
          /\ current'.type # "EOF_TOKEN" => lexer'.position > lexer.position]_vars

\* C27's case: nextToken() has returned a lex-error token for an
\* unterminated string that ends the text.
C27_Witness ==
  /\ pc = "nextToken"
  /\ current.type = "UNKNOWN"
  /\ current.lexeme = UnterminatedString
  /\ lexer.position = MaxChars
  /\ lexer.start > 0

\* The index of the first '"' of src after index i, 0 when there is none.
ClosingQuote(src, i) ==
  LET quotes == {j \in (i + 1)..Len(src) : src[j] = "\""}
  IN IF quotes = {} THEN 0
     ELSE CHOOSE j \in quotes : \A k \in quotes : j <= k

\* C30: a token that starts at a '"' ends at the next '"' of the source,
\* whatever stands between them; its text holds both quotes and the Literal
\* built from it holds the text without its first and last character.  When
\* no '"' follows, the token is the lex-error token "Unterminated string."
\* and the token after it is end-of-input.
C30_String ==
  [][(pc' = "nextToken"
        /\ lexer'.start < Len(source)
        /\ source[lexer'.start + 1] = "\"") =>
       LET open == lexer'.start + 1
           close == ClosingQuote(source, open)
       IN IF close # 0
          THEN /\ current'.type = "STRING"
               /\ lexer'.position = close
               /\ current'.lexeme = SubSeq(source, open, close)
               /\ literalValue(current') =
                    StringValue(SubSeq(source, open + 1, close - 1))
          ELSE /\ current'.type = "UNKNOWN"
               /\ current'.lexeme = UnterminatedString
               /\ nextToken(source, lexer').tok.type = "EOF_TOKEN"]_vars

\* C30's case: a string that holds a backslash or a newline.
C30_Witness ==
  /\ pc = "nextToken"
  /\ current.type = "STRING"
  /\ current.lexeme \in {<<"\"", "\\", "\"">>, <<"\"", "\n", "\"">>}

\* The 1-based column of the character at index i (0-based) of src: one
\* more than the number of characters between it and the newline before it.
ColumnOf(src, i) ==
  LET newlines == {j \in 1..i : src[j] = "\n"}
  IN IF newlines = {} THEN i + 1
     ELSE i - (CHOOSE j \in newlines : \A k \in newlines : k <= j) + 1

\* C21: the column of every token nextToken() returns that has a first
\* character (every token but end-of-input) is the 1-based column of that
\* character within its line: 1 for a token that starts a line.
C21_Column ==
  (pc = "nextToken" /\ current.type # "EOF_TOKEN") =>
    current.column = ColumnOf(source, lexer.start)

\* The index of the last character of the run of digits of src that starts
\* at index i.
RECURSIVE DigitRun(_, _)
DigitRun(src, i) ==
  IF i < Len(src) /\ src[i + 1] \in Digit THEN DigitRun(src, i + 1) ELSE i

\* The index of the last character of the number that starts at index i of
\* src: its digits, and a '.' with the digits after it when there is one.
NumberEnd(src, i) ==
  LET whole == DigitRun(src, i)
  IN IF whole + 2 <= Len(src) /\ src[whole + 1] = "."
          /\ src[whole + 2] \in Digit
     THEN DigitRun(src, whole + 2)
     ELSE whole

\* The types and texts of the tokens of src.
TypesAndTexts(src) ==
  LET result == tokenize(src, LexerNew).tokens
  IN [i \in 1..Len(result) |-> <<result[i].type, result[i].lexeme>>]

\* C31: a token that starts at a digit is a number token that holds the
\* longest run of digits there, and a '.' with the digits after it only
\* when a digit follows the '.'; no number token starts with '-' or '.'.
\* `12.` is the number `12` then `.`; `1.5.3` is `1.5`, `.`, `3`.
C31_Number ==
  [][pc' = "nextToken" =>
       /\ (lexer'.start < Len(source)
             /\ source[lexer'.start + 1] \in Digit) =>
            /\ current'.type = "NUMBER"
            /\ lexer'.position = NumberEnd(source, lexer'.start + 1)
            /\ current'.lexeme =
                 SubSeq(source, lexer'.start + 1, lexer'.position)
       /\ current'.type = "NUMBER" => current'.lexeme[1] \in Digit
       /\ source = TwelveDot =>
            TypesAndTexts(source) =
              << <<"NUMBER", <<"1", "2">> >>, <<"DOT", <<".">> >>,
                 <<"EOF_TOKEN", <<>> >> >>
       /\ source = OneFiveThree =>
            TypesAndTexts(source) =
              << <<"NUMBER", <<"1", ".", "5">> >>, <<"DOT", <<".">> >>,
                 <<"NUMBER", <<"3">> >>, <<"EOF_TOKEN", <<>> >> >>]_vars

\* C31's case: nextToken() has returned the number after the second '.' of
\* `1.5.3`.
C31_Witness ==
  /\ pc = "nextToken"
  /\ source = OneFiveThree
  /\ current.type = "NUMBER"
  /\ current.lexeme = <<"3">>
  /\ lexer.start = 4

\* The index of the last character of the run of letters, digits and '_'
\* of src that starts at index i.
RECURSIVE WordRun(_, _)
WordRun(src, i) ==
  IF i < Len(src) /\ src[i + 1] \in Lower \cup Upper \cup Digit \cup {"_"}
  THEN WordRun(src, i + 1)
  ELSE i

\* C34: a token that starts at a letter or '_' holds the longest run of
\* letters, digits and '_' there; its kind is a keyword kind exactly when
\* its whole text is, letter for letter, one of the eighteen reserved words
\* (then the kind of that word), and identifier otherwise.
C34_Keyword ==
  [][(pc' = "nextToken"
        /\ lexer'.start < Len(source)
        /\ source[lexer'.start + 1] \in Lower \cup Upper \cup {"_"}) =>
       LET text == SubSeq(source, lexer'.start + 1,
                          WordRun(source, lexer'.start + 1))
       IN /\ current'.lexeme = text
          /\ lexer'.position = lexer'.start + Len(text)
          /\ \A w \in ReservedWords :
               current'.type = w[2] <=> text = w[1]
          /\ current'.type = "IDENTIFIER" <=>
               ~ \E w \in ReservedWords : text = w[1]]_vars

\* C34's case: nextToken() has returned `Room`, `rooms` or `_if`.
C34_Witness ==
  /\ pc = "nextToken"
  /\ current.type = "IDENTIFIER"
  /\ current.lexeme \in {<<"R","o","o","m">>, <<"r","o","o","m","s">>,
                         <<"_","i","f">>}

\* The index of the last character of src at or after index i that stands
\* before a newline or ends the text.
RECURSIVE LineEnd(_, _)
LineEnd(src, i) ==
  IF i < Len(src) /\ src[i + 1] # "\n" THEN LineEnd(src, i + 1) ELSE i

\* C35: nextToken() never returns a token of kind comment; a token that
\* starts at '/' is a division token of that one character, and the
\* character after it is not '/'; and when the next token would start at
\* `//`, the tokens of the source have the kinds and texts of the tokens
\* of the source without the characters from that `//` to the end of its
\* line.
C35_Comment ==
  [][pc' = "nextToken" =>
       /\ current'.type # "COMMENT"
       /\ (lexer'.start < Len(source) /\ source[lexer'.start + 1] = "/") =>
            /\ current'.type = "DIVIDE"
            /\ current'.lexeme = <<"/">>
            /\ lexer'.position = lexer'.start + 1
            /\ lexer'.position < Len(source) =>
                 source[lexer'.position + 1] # "/"
       /\ LET q == skipWhitespace(source, lexer).position
          IN (q + 2 <= Len(source) /\ source[q + 1] = "/"
                /\ source[q + 2] = "/") =>
               /\ TypesAndTexts(source) =
                    TypesAndTexts(SubSeq(source, 1, q) \o
                                  SubSeq(source, LineEnd(source, q + 1) + 1,
                                         Len(source)))
               /\ lexer'.start >= LineEnd(source, q + 1)]_vars

\* C35's case: nextToken() has returned the token on the line after a
\* comment.
C35_Witness ==
  /\ pc = "nextToken"
  /\ source = <<"/", "/", "a", "\n", "a">>
  /\ current.type = "IDENTIFIER"
  /\ lexer.start = 4

\* The kind of the operator that is c alone.
ShortOperator(c) ==
  CASE c = "=" -> "ASSIGN"
    [] c = "!" -> "NOT"
    [] c = "<" -> "LT"
    [] c = ">" -> "GT"

\* The kind of the operator that is c and '='.
LongOperator(c) ==
  CASE c = "=" -> "EQ"
    [] c = "!" -> "NEQ"
    [] c = "<" -> "LTE"
    [] c = ">" -> "GTE"

\* C36: a token that starts at '=', '!', '<' or '>' is the two-character
\* operator (==, !=, <=, >=) when the next character is '=', and takes both
\* characters; otherwise it is the one-character operator (assign, not,
\* less-than, greater-than) and takes that character alone.  `===` is `==`
\* then `=`.
C36_Lookahead ==
  [][(pc' = "nextToken"
        /\ lexer'.start < Len(source)
        /\ source[lexer'.start + 1] \in {"=", "!", "<", ">"}) =>
       LET c == source[lexer'.start + 1]
           long == lexer'.start + 2 <= Len(source)
                     /\ source[lexer'.start + 2] = "="
       IN /\ current'.type = IF long THEN LongOperator(c)
                                     ELSE ShortOperator(c)
          /\ current'.lexeme = IF long THEN <<c, "=">> ELSE <<c>>
          /\ lexer'.position = lexer'.start + (IF long THEN 2 ELSE 1)
          /\ source = <<"=", "=", "=">> =>
               TypesAndTexts(source) =
                 << <<"EQ", <<"=", "=">> >>, <<"ASSIGN", <<"=">> >>,
                    <<"EOF_TOKEN", <<>> >> >>]_vars

\* C36's case: nextToken() has returned the `=` that is left of `===`.
C36_Witness ==
  /\ pc = "nextToken"
  /\ source = <<"=", "=", "=">>
  /\ current.type = "ASSIGN"
  /\ lexer.start = 2

\* The characters that start a token or stand between tokens: whitespace,
\* letters, '_', digits, '"' and the operators and symbols of the language.
TokenCharacters ==
  {" ", "\r", "\t", "\n", "_", "\""} \cup Lower \cup Upper \cup Digit
    \cup {"+", "-", "*", "/", "%", "=", "!", "<", ">"}
    \cup {"(", ")", "{", "}", ":", ",", ";", "."}

\* The types and texts of the tokens of src from the cursor L on.
TextsFrom(src, L) ==
  LET result == tokenize(src, L).tokens
  IN [i \in 1..Len(result) |-> <<result[i].type, result[i].lexeme>>]

\* C37: a token that starts at a character that is none of TokenCharacters
\* is one lex-error token with the message "Unexpected character."; it
\* takes that one character, and the tokens after it are the tokens of the
\* text after that character.
C37_Unexpected ==
  [][(pc' = "nextToken"
        /\ lexer'.start < Len(source)
        /\ source[lexer'.start + 1] \notin TokenCharacters) =>
       /\ current'.type = "UNKNOWN"
       /\ current'.lexeme = UnexpectedCharacter
       /\ lexer'.position = lexer'.start + 1
       /\ TextsFrom(source, lexer') =
            TypesAndTexts(SubSeq(source, lexer'.start + 2, Len(source)))]_vars

\* C37's case: nextToken() has returned the lex-error token of a '@' that
\* other characters follow.
C37_Witness ==
  /\ pc = "nextToken"
  /\ current.type = "UNKNOWN"
  /\ current.lexeme = UnexpectedCharacter
  /\ source[lexer.start + 1] = "@"
  /\ lexer.position < Len(source)

\* The 1-based line of the character at index i (0-based) of src: one more
\* than the number of newlines before it.
LineOf(src, i) == 1 + Cardinality({j \in 1..i : src[j] = "\n"})

\* C38: the line of every token nextToken() returns is the 1-based line of
\* the token's first character (of the end of the text for end-of-input),
\* whatever the kind of the token, string tokens that hold newlines
\* included.
C38_Line ==
  pc = "nextToken" => current.line = LineOf(source, lexer.start)

(***************************************************************************)
(* Properties of the parse                                                 *)
(***************************************************************************)

\* C1: parse() terminates for every source text: the top-level loop of
\* parseProgram (and every loop under it) is never one that cannot exit.
C1_Terminates == pc # "hung"

\* C2: parse() never reads the location of an operand or callee through the
\* empty pointer parsePrimary returns after "Expected expression.".
C2_NoNullOperand == ~nullDeref

\* C3: the room with one property, one item and one `when entered` event
\* parses to a Program with exactly that one Room, and hadError() is false.
C3_RoomScenario ==
  source = RoomEntered =>
    /\ ~errorOccurred
    /\ pc \notin {"hung", "crashed", "catch"}
    /\ pc = "done" =>
         /\ Len(program.rooms) = 1
         /\ Len(program.rooms[1].properties) = 1
         /\ Len(program.rooms[1].items) = 1
         /\ Len(program.rooms[1].events) = 1
         /\ program.rooms[1].events[1][1] = W_entered
         /\ program.rooms[1].events[1][2].kind = "Block"

\* C4: for every text the grammar derives, the error flag stays unset.
C4_ValidNoError == source \in ValidSources => ~errorOccurred

\* C5: for `say "abc` the parser records an error and then finishes parse()
\* without crashing and without looping.
C5_UnterminatedString ==
  source = SayUnterminated =>
    /\ pc \notin {"hung", "crashed"}
    /\ pc = "done" => errorOccurred

\* C6: for `var ;  var x = 1;` exactly one error is recorded over the whole
\* parse and the statements contain a Var named x initialized to Literal(1).
C6_VarMissingName ==
  (source = VarMissingName /\ pc = "done") =>
    /\ Len(cerr) = 1
    /\ \E i \in 1..Len(program.statements) :
         /\ program.statements[i].kind = "Var"
         /\ program.statements[i].name.lexeme = <<"x">>
         /\ program.statements[i].initializer.kind = "Literal"
         /\ program.statements[i].initializer.value =
              NumberValue([mant |-> 1, scale |-> 0])

\* C6's case: the parse of `var ;  var x = 1;` has returned.
C6_Witness == source = VarMissingName /\ pc = "done" /\ errorOccurred

\* C7: for `1 = 2; x;` "Invalid assignment target." is recorded exactly once,
\* the statement is an ExpressionStmt of the left-hand Literal(1), and the
\* statement after the ';' is parsed normally.
C7_InvalidTarget ==
  (source = AssignToLiteral /\ pc = "done") =>
    /\ Len(cerr) = 1
    /\ cerr[1].message = "Invalid assignment target."
    /\ Len(program.statements) = 2
    /\ program.statements[1].kind = "ExpressionStmt"
    /\ program.statements[1].expression.kind = "Literal"
    /\ program.statements[1].expression.value =
         NumberValue([mant |-> 1, scale |-> 0])
    /\ program.statements[2].kind = "ExpressionStmt"
    /\ program.statements[2].expression.kind = "Variable"
    /\ program.statements[2].expression.name.lexeme = <<"x">>

\* C7's case: the parse of `1 = 2; x;` has returned with its error.
C7_Witness ==
  source = AssignToLiteral /\ pc = "done" /\ Len(program.statements) = 2

\* C8: a pass of the top-level loop in which an error is recorded goes to
\* the catch clause, where synchronize() is called.
C8_SyncAfterError ==
  [][(pc = "loop" /\ Len(cerr') > Len(cerr)) => pc' = "catch"]_vars

\* C9: synchronize() first consumes one token whatever it is; it returns only
\* where previous is ';', or current is one of room, item, function, var, if,
\* while, return, say, goto, or current is end-of-input, and it returns
\* without consuming that token; where one of these holds it consumes nothing
\* more.
C9_Synchronize ==
  [][/\ pc = "catch" => (pc' = "sync" /\ previous' = current)
     /\ (pc = "sync" /\ pc' = "loop") =>
          (\/ previous.type = "SEMICOLON"
           \/ current.type \in {"ROOM", "ITEM", "FUNCTION", "VAR", "IF",
                                 "WHILE", "RETURN", "SAY", "GOTO"}
           \/ current.type = "EOF_TOKEN")
     /\ (/\ pc = "sync"
         /\ \/ previous.type = "SEMICOLON"
            \/ current.type \in {"ROOM", "ITEM", "FUNCTION", "VAR", "IF",
                                  "WHILE", "RETURN", "SAY", "GOTO"}
            \/ current.type = "EOF_TOKEN") =>
          (pc' = "loop" /\ current' = current /\ previous' = previous
           /\ lexer' = lexer)]_vars

\* C9's case: synchronize() is about to return in front of a keyword it has
\* not consumed, after skipping a token that is not ';'.
C9_Witness ==
  /\ pc = "sync"
  /\ previous.type \notin {"SEMICOLON", "NUMBER"}
  /\ current.type \in {"ROOM", "ITEM", "FUNCTION", "VAR", "IF", "WHILE",
                        "RETURN", "SAY", "GOTO"}

\* C10: after an error is recorded the parser still reaches end-of-input:
\* no parse that has recorded an error is in a loop that cannot exit.
C10_ReachesEndAfterError == errorOccurred => pc # "hung"

\* Every TokenType of token.h.
TokenTypes ==
  { "ROOM", "ITEM", "VAR", "FUNCTION", "IF", "ELSE", "WHILE", "FOR", "RETURN",
    "WHEN", "ENTERED", "SAY", "GOTO", "TRUE", "FALSE", "NOT", "AND", "OR",
    "IDENTIFIER", "STRING", "NUMBER",
    "PLUS", "MINUS", "MULTIPLY", "DIVIDE", "MODULO", "ASSIGN", "EQ", "NEQ",
    "LT", "GT", "LTE", "GTE",
    "LPAREN", "RPAREN", "LBRACE", "RBRACE", "COLON", "COMMA", "SEMICOLON",
    "DOT", "EOF_TOKEN", "UNKNOWN", "COMMENT" }

\* C12: consume(kind, message) on a current token of that kind advances and
\* returns the token it consumed; on any other current token it records
\* exactly one error, returns that current token and leaves current,
\* previous and the lexer position as they were.
C12_Consume ==
  pc # "new" =>
    \A type \in TokenTypes :
      LET P == ParserState("crash")
          r == consume(source, P, type, "message")
      IN /\ r.tok = current
         /\ IF current.type = type
            THEN /\ r.P.previous = current
                 /\ r.P.current = nextToken(source, lexer).tok
                 /\ r.P.lexer = nextToken(source, lexer).L
                 /\ r.P.cerr = cerr
                 /\ r.P.errorOccurred = errorOccurred
            ELSE /\ r.P.current = current
                 /\ r.P.previous = previous
                 /\ r.P.lexer = lexer
                 /\ r.P.errorOccurred
                 /\ Len(cerr) < MaxCerr =>
                      r.P.cerr = Append(cerr, [line |-> current.line,
                                               column |-> current.column,
                                               message |-> "message"])

\* C12's case: consume(SEMICOLON, ...) has met the end of `var x` and the
\* parse went on to return.
C12_Witness ==
  /\ source = Join(<<W_var, <<"x">> >>)
  /\ pc = "done"
  /\ Len(cerr) = 1
  /\ cerr[1].message = "Expected ';' after variable declaration."
  /\ current.type = "EOF_TOKEN"
  /\ previous.type = "IDENTIFIER"

\* node without its locations and with its tokens as their texts.
RECURSIVE Shape(_)
Shape(node) ==
  CASE node.kind = "Binary" ->
         <<"Binary", node.op.lexeme, Shape(node.left), Shape(node.right)>>
    [] node.kind = "Variable" -> <<"Variable", node.name.lexeme>>
    [] node.kind = "Literal" -> <<"Literal", node.value>>
    [] node.kind = "Unary" ->
         <<"Unary", node.op.lexeme, Shape(node.right)>>
    [] node.kind = "ExpressionStmt" ->
         <<"ExpressionStmt", Shape(node.expression)>>
    [] node.kind = "Return" -> <<"Return", Shape(node.value)>>
    [] node.kind = "Say" -> <<"Say", Shape(node.message)>>
    [] node.kind = "Block" ->
         <<"Block",
           [i \in 1..Len(node.statements) |-> Shape(node.statements[i])]>>
    [] node.kind = "Call" ->
         <<"Call", Shape(node.callee),
           [i \in 1..Len(node.arguments) |-> Shape(node.arguments[i])]>>
    [] OTHER -> <<node.kind>>

Binary(op, left, right) == <<"Binary", op, left, right>>

Variable(name) == <<"Variable", name>>

Literal(n) == <<"Literal", NumberValue([mant |-> n, scale |-> 0])>>

\* The level of a binary operator as the language orders them, lowest first.
Precedence(op) ==
  CASE op = <<"o","r">> -> 1
    [] op = <<"a","n","d">> -> 2
    [] op \in { <<"=","=">>, <<"!","=">> } -> 3
    [] op \in { <<"<">>, <<">">>, <<"<","=">>, <<">","=">> } -> 4
    [] op \in { <<"+">>, <<"-">> } -> 5
    [] op \in { <<"*">>, <<"/">> } -> 6

\* The parse has returned one expression statement and no error.
OneExpression ==
  /\ pc = "done"
  /\ ~errorOccurred
  /\ program.rooms = <<>>
  /\ program.functions = <<>>
  /\ Len(program.statements) = 1
  /\ program.statements[1].kind = "ExpressionStmt"

\* C13: in `x op1 y op2 z` the operator of the higher level binds its
\* neighbours first: Binary(op1, x, Binary(op2, y, z)) when op2 is higher
\* than op1, Binary(op2, Binary(op1, x, y), z) when it is lower; `1 + 2 * 3`
\* is Binary(+, Literal(1), Binary(*, Literal(2), Literal(3))).
C13_Precedence ==
  pc = "done" =>
    /\ \A op1, op2 \in BinaryOperators :
         (source = OperatorSource(op1, op2)
            /\ Precedence(op1) # Precedence(op2)) =>
           /\ OneExpression
           /\ Shape(program.statements[1].expression) =
                IF Precedence(op2) > Precedence(op1)
                THEN Binary(op1, Variable(<<"x">>),
                            Binary(op2, Variable(<<"y">>), Variable(<<"z">>)))
                ELSE Binary(op2,
                            Binary(op1, Variable(<<"x">>), Variable(<<"y">>)),
                            Variable(<<"z">>))
    /\ source = OnePlusTwoTimesThree =>
         /\ OneExpression
         /\ Shape(program.statements[1].expression) =
              Binary(<<"+">>, Literal(1),
                     Binary(<<"*">>, Literal(2), Literal(3)))

\* C13's case: the parse of `1 + 2 * 3 ;` has returned.
C13_Witness ==
  /\ source = OnePlusTwoTimesThree
  /\ pc = "done"
  /\ Len(program.statements) = 1

\* The right-nested assignments of the variables v to the expression e.
RECURSIVE Assignments(_, _)
Assignments(v, e) ==
  IF v = <<>> THEN e
  ELSE Binary(<<"=">>, Variable(Head(v)), Assignments(Tail(v), e))

\* C14: a chain v1 = v2 = ... = e of variables parses to
\* Binary(=, v1, Binary(=, v2, ... e)) and records no error, `a = b = 1` to
\* Binary(=, a, Binary(=, b, Literal(1))); and in `a = b op c` every binary
\* operator binds before the assignment.
C14_Assignment ==
  pc = "done" =>
    /\ \A v \in ChainTargets, e \in ChainValues :
         source = AssignChain(v, e) =>
           /\ OneExpression
           /\ Shape(program.statements[1].expression) =
                Assignments(v, IF e = <<"1">> THEN Literal(1)
                                             ELSE Variable(e))
    /\ \A op \in BinaryOperators :
         source = AssignOperatorSource(op) =>
           /\ OneExpression
           /\ Shape(program.statements[1].expression) =
                Binary(<<"=">>, Variable(<<"a">>),
                       Binary(op, Variable(<<"b">>), Variable(<<"c">>)))

\* C14's case: the parse of `a = b = 1 ;` has returned.
C14_Witness ==
  /\ source = AssignChain(<< <<"a">>, <<"b">> >>, <<"1">>)
  /\ pc = "done"
  /\ Len(program.statements) = 1

\* C15: for op1 and op2 of one level, `x op1 y op2 z` parses to
\* Binary(op2, Binary(op1, x, y), z).
C15_LeftAssociative ==
  pc = "done" =>
    \A op1, op2 \in BinaryOperators :
      (source = OperatorSource(op1, op2)
         /\ Precedence(op1) = Precedence(op2)) =>
        /\ OneExpression
        /\ Shape(program.statements[1].expression) =
             Binary(op2, Binary(op1, Variable(<<"x">>), Variable(<<"y">>)),
                    Variable(<<"z">>))

\* C15's case: the parse of `x - y + z ;` has returned.
C15_Witness ==
  /\ source = OperatorSource(<<"-">>, <<"+">>)
  /\ pc = "done"
  /\ Len(program.statements) = 1

\* C23: `a % b ;` parses to the one statement Binary(%, a, b), as `a * b ;`
\* parses to Binary(*, a, b), and no error is recorded: no token of it is a
\* lex-error token.
C23_Modulo ==
  source = ModuloExample =>
    /\ ~errorOccurred
    /\ current.type # "UNKNOWN"
    /\ pc # "hung"
    /\ pc = "done" =>
         /\ OneExpression
         /\ Shape(program.statements[1].expression) =
              Binary(<<"%">>, Variable(<<"a">>), Variable(<<"b">>))

\* C24: in the room of RoomEvent, `when e { say 3 ; }` records the event
\* (e, Block[say 3]) and the room's own '}' ends the room: no error is
\* recorded and the parse returns one room with that one event.
C24_WhenEvent ==
  source = RoomEvent =>
    /\ ~errorOccurred
    /\ pc = "done" =>
         /\ Len(program.rooms) = 1
         /\ Len(program.rooms[1].events) = 1
         /\ program.rooms[1].events[1][1] = <<"e">>
         /\ program.rooms[1].events[1][2].kind = "Block"
         /\ Len(program.rooms[1].events[1][2].statements) = 1
         /\ program.rooms[1].events[1][2].statements[1].kind = "Say"

IsIdentifierText(text) ==
  /\ text # <<>>
  /\ isalpha(text[1]) \/ text[1] = "_"
  /\ \A i \in 1..Len(text) : isalnum(text[i]) \/ text[i] = "_"
  /\ identifierType(text) = "IDENTIFIER"

\* node and everything under it has its required children, and every name
\* stored in it is an identifier.  An else branch, a var initializer and a
\* return value may be absent.
RECURSIVE Complete(_)
Complete(node) ==
  CASE node.kind = "null" -> FALSE
    [] node.kind = "Literal" -> TRUE
    [] node.kind = "Variable" -> node.name.type = "IDENTIFIER"
    [] node.kind = "Binary" -> Complete(node.left) /\ Complete(node.right)
    [] node.kind = "Unary" -> Complete(node.right)
    [] node.kind = "Call" ->
         /\ Complete(node.callee)
         /\ \A i \in 1..Len(node.arguments) : Complete(node.arguments[i])
    [] node.kind = "ExpressionStmt" -> Complete(node.expression)
    [] node.kind = "Say" -> Complete(node.message)
    [] node.kind = "Goto" -> Complete(node.destination)
    [] node.kind = "If" ->
         /\ Complete(node.condition)
         /\ Complete(node.thenBranch)
         /\ node.elseBranch = Null \/ Complete(node.elseBranch)
    [] node.kind = "While" -> Complete(node.condition) /\ Complete(node.body)
    [] node.kind = "Var" ->
         /\ node.name.type = "IDENTIFIER"
         /\ node.initializer = Null \/ Complete(node.initializer)
    [] node.kind = "Return" -> node.value = Null \/ Complete(node.value)
    [] node.kind = "Block" ->
         \A i \in 1..Len(node.statements) : Complete(node.statements[i])
    [] node.kind = "Function" ->
         /\ node.name.type = "IDENTIFIER"
         /\ \A i \in 1..Len(node.params) :
              node.params[i].type = "IDENTIFIER"
         /\ Complete(node.body)
    [] node.kind = "Item" ->
         /\ node.name.type = "IDENTIFIER"
         /\ \A i \in 1..Len(node.properties) :
              /\ IsIdentifierText(node.properties[i][1])
              /\ Complete(node.properties[i][2])
    [] node.kind = "Room" ->
         /\ node.name.type = "IDENTIFIER"
         /\ \A i \in 1..Len(node.properties) :
              /\ IsIdentifierText(node.properties[i][1])
              /\ Complete(node.properties[i][2])
         /\ \A i \in 1..Len(node.items) : Complete(node.items[i])
         /\ \A i \in 1..Len(node.events) :
              /\ IsIdentifierText(node.events[i][1])
              /\ Complete(node.events[i][2])

\* C26: while the error flag is unset, every node of the program has its
\* required children and every name stored in a node is an identifier.
C26_Placeholders ==
  ~errorOccurred =>
    /\ \A i \in 1..Len(program.rooms) : Complete(program.rooms[i])
    /\ \A i \in 1..Len(program.functions) : Complete(program.functions[i])
    /\ \A i \in 1..Len(program.statements) : Complete(program.statements[i])

\* C26's case: the statements of StatementsExample and the function of
\* FunctionExample have been parsed with the error flag unset.
C26_Witness ==
  /\ source \in {StatementsExample, FunctionExample}
  /\ pc = "done"
  /\ ~errorOccurred
  /\ Len(program.statements) + Len(program.functions) >= 1

Call(callee, arguments) == <<"Call", callee, arguments>>

\* C29: for every base e, `e.b` parses to the node Variable(b) alone:
\* `e.b ;` is the statement Variable(b), `e.b = 1 ;` the assignment
\* Binary(=, Variable(b), Literal(1)) and `e.b(c) ;` the call
\* Call(Variable(b), [c]), each with no error recorded.
C29_PropertyAccess ==
  pc = "done" =>
    \A base \in AccessBases, use \in AccessUses :
      source = AccessSource(base, use) =>
        /\ OneExpression
        /\ Shape(program.statements[1].expression) =
             IF use = <<>> THEN Variable(<<"b">>)
             ELSE IF use[1] = <<"=">>
               THEN Binary(<<"=">>, Variable(<<"b">>), Literal(1))
             ELSE Call(Variable(<<"b">>), << Variable(<<"c">>) >>)

\* C29's case: the parse of `f ( x ) . b = 1 ;` has returned.
C29_Witness ==
  /\ source = AccessSource(<< <<"f">>, <<"(">>, <<"x">>, <<")">> >>,
                           << <<"=">>, <<"1">> >>)
  /\ pc = "done"
  /\ Len(program.statements) = 1

\* What a fresh lexer over src produces: each token nextToken() returns, up
\* to the first end-of-input, with the cursor it leaves.
RECURSIVE StreamFrom(_, _, _)
StreamFrom(src, L, stream) ==
  LET r == nextToken(src, L)
  IN IF r.tok.type = "EOF_TOKEN" THEN Append(stream, r)
     ELSE StreamFrom(src, r.L, Append(stream, r))

\* The k-th element of stream; nextToken() at the end of the text returns
\* the last one again.
StreamAt(stream, k) == IF k <= Len(stream) THEN stream[k] ELSE stream[Len(stream)]

\* C28: the parser holds the tokens of a fresh lexer in order: the
\* constructor leaves the first one in current, and in every later state
\* current is the k-th token nextToken() produces on the text, for some k,
\* previous the one before it and the lexer's cursor where the k-th call
\* left it; advance() moves previous to the old current and current to the
\* lexer's next token, and a match() that fails changes nothing.
C28_TokenStream ==
  [][\E stream \in {StreamFrom(source, LexerNew, <<>>)} :
       /\ pc = "new" =>
            /\ current' = stream[1].tok
            /\ lexer' = stream[1].L
       /\ \E k \in 1..(Len(stream) + 1) :
            /\ current' = StreamAt(stream, k).tok
            /\ lexer' = StreamAt(stream, k).L
            /\ previous' = IF k = 1 THEN NoToken
                           ELSE StreamAt(stream, k - 1).tok
       /\ LET P == [lexer |-> lexer', current |-> current',
                    previous |-> previous', errorOccurred |-> errorOccurred',
                    cerr |-> cerr', nullDeref |-> nullDeref', ub |-> "crash"]
          IN /\ advance(source, P) =
                  [P EXCEPT !.previous = current',
                            !.current = nextToken(source, lexer').tok,
                            !.lexer = nextToken(source, lexer').L]
             /\ \A type \in TokenTypes \ {current'.type} :
                  /\ ~check(P, type)
                  /\ match(source, P, type) = [ok |-> FALSE, P |-> P]]_vars

\* C28's case: the parser has read FunctionExample to its end.
C28_Witness ==
  /\ source = FunctionExample
  /\ pc = "loop"
  /\ current.type = "EOF_TOKEN"
  /\ previous.type = "RBRACE"

\* node without its locations: its kind, its tokens and its children in
\* their order.
RECURSIVE Structure(_)
Structure(node) ==
  CASE node.kind = "null" -> <<"null">>
    [] node.kind = "Literal" -> <<"Literal", node.value>>
    [] node.kind = "Variable" -> <<"Variable", node.name>>
    [] node.kind = "Binary" ->
         <<"Binary", node.op, Structure(node.left), Structure(node.right)>>
    [] node.kind = "Unary" -> <<"Unary", node.op, Structure(node.right)>>
    [] node.kind = "Call" ->
         <<"Call", node.paren, Structure(node.callee),
           [i \in 1..Len(node.arguments) |-> Structure(node.arguments[i])]>>
    [] node.kind = "ExpressionStmt" ->
         <<"ExpressionStmt", Structure(node.expression)>>
    [] node.kind = "Say" -> <<"Say", Structure(node.message)>>
    [] node.kind = "Goto" -> <<"Goto", Structure(node.destination)>>
    [] node.kind = "If" ->
         <<"If", Structure(node.condition), Structure(node.thenBranch),
           Structure(node.elseBranch)>>
    [] node.kind = "While" ->
         <<"While", Structure(node.condition), Structure(node.body)>>
    [] node.kind = "Var" ->
         <<"Var", node.name, Structure(node.initializer)>>
    [] node.kind = "Return" ->
         <<"Return", node.keyword, Structure(node.value)>>
    [] node.kind = "Block" ->
         <<"Block",
           [i \in 1..Len(node.statements) |-> Structure(node.statements[i])]>>
    [] node.kind = "Function" ->
         <<"Function", node.name, node.params, Structure(node.body)>>
    [] node.kind = "Item" ->
         <<"Item", node.name,
           [i \in 1..Len(node.properties) |->
              <<node.properties[i][1], Structure(node.properties[i][2])>>]>>
    [] node.kind = "Room" ->
         <<"Room", node.name,
           [i \in 1..Len(node.properties) |->
              <<node.properties[i][1], Structure(node.properties[i][2])>>],
           [i \in 1..Len(node.items) |-> Structure(node.items[i])],
           [i \in 1..Len(node.events) |->
              <<node.events[i][1], Structure(node.events[i][2])>>]>>

\* The Program p without its locations.
ProgramStructure(p) ==
  [rooms |-> [i \in 1..Len(p.rooms) |-> Structure(p.rooms[i])],
   functions |-> [i \in 1..Len(p.functions) |-> Structure(p.functions[i])],
   statements |->
     [i \in 1..Len(p.statements) |-> Structure(p.statements[i])]]

Unary(op, right) == <<"Unary", op, right>>

\* C33: `op1 op2 x` parses to Unary(op1, Unary(op2, x)) for the prefix
\* operators `-`, `!` and `not`; a prefix operator binds its operand before
\* every binary operator, so `op a binary b` is
\* Binary(binary, Unary(op, a), b) and `-a * b` is Binary(*, Unary(-, a), b);
\* the operator tokens of `!x` and of `not x` have the same kind.
C33_Prefix ==
  pc = "done" =>
    /\ \A op1, op2 \in PrefixOperators :
         source = PrefixSource(op1, op2) =>
           /\ OneExpression
           /\ Shape(program.statements[1].expression) =
                Unary(op1, Unary(op2, Variable(<<"x">>)))
    /\ \A op \in PrefixOperators, binary \in BinaryOperators :
         source = PrefixOperandSource(op, binary) =>
           /\ OneExpression
           /\ Shape(program.statements[1].expression) =
                Binary(binary, Unary(op, Variable(<<"a">>)),
                       Variable(<<"b">>))
    /\ \A op \in PrefixOperators :
         source = OnePrefixSource(op) =>
           /\ OneExpression
           /\ Shape(program.statements[1].expression) =
                Unary(op, Variable(<<"x">>))
           /\ program.statements[1].expression.op.type =
                IF op = <<"-">> THEN "MINUS" ELSE "NOT"

\* C33's case: the parse of `not ! x ;` has returned.
C33_Witness ==
  /\ source = PrefixSource(W_not, <<"!">>)
  /\ pc = "done"
  /\ Len(program.statements) = 1
  /\ program.statements[1].expression.kind = "Unary"

\* The shape of each of BodyStatements.
StatementShape(words) ==
  CASE words = S_return -> <<"Return", Variable(<<"a">>)>>
    [] words = S_say -> <<"Say", Literal(1)>>
    [] words = S_assign ->
         <<"ExpressionStmt",
           Binary(<<"=">>, Variable(<<"x">>), Literal(1))>>
    [] words = S_block -> <<"Block", <<>> >>

\* The parser P after k calls of advance().
RECURSIVE Advanced(_, _, _)
Advanced(src, P, k) ==
  IF k = 0 THEN P ELSE Advanced(src, advance(src, P), k - 1)

\* C32: the pass of the top-level loop that meets
\* `function f ( p1, ..., pn ) { S1 ... Sm }` records no error and adds one
\* Function with the name f, the parameters p1..pn in their order and a
\* Block of exactly S1..Sm; the parser has consumed through the '{' before
\* the block parser starts, the block parser ends having consumed the
\* matching '}', and the token after that '}' is the current one when the
\* pass ends.
C32_Function ==
  [][(pc = "loop" /\ current.type = "FUNCTION") =>
     \A parameters \in FunctionParameters, body \in FunctionBodies,
        follower \in FunctionFollowers :
       source = FunctionSource(parameters, body, follower) =>
         /\ pc' = "loop"
         /\ ~errorOccurred'
         /\ cerr' = <<>>
         /\ Len(program'.functions) = 1
         /\ LET F == program'.functions[1]
                n == Len(parameters)
                P == Advanced(source, ParserState(ubOutcome),
                              4 + n + (IF n = 0 THEN 0 ELSE n - 1) + 1)
                block == parseBlock(source, P)
            IN /\ F.kind = "Function"
               /\ F.name.type = "IDENTIFIER"
               /\ F.name.lexeme = <<"f">>
               /\ [i \in 1..Len(F.params) |-> F.params[i].lexeme] = parameters
               /\ Shape(F.body) =
                    <<"Block",
                      [i \in 1..Len(body) |-> StatementShape(body[i])]>>
               /\ P.previous.type = "LBRACE"
               /\ block.out = "ok"
               /\ block.node = F.body
               /\ block.P.previous.type = "RBRACE"
               /\ block.P.current = current'
               /\ block.P.lexer = lexer'
         /\ previous'.type = "RBRACE"
         /\ previous'.column = Len(source) - Len(Join(<< <<"}">> >> \o follower)) + 1
         /\ current'.type = IF follower = <<>> THEN "EOF_TOKEN"
                                               ELSE "IDENTIFIER"
         /\ current'.lexeme = IF follower = <<>> THEN <<>> ELSE <<"y">>]_vars

\* C32's case: the parse of
\* `function f ( a , b , c ) { { } return a ; } y ;` has returned.
C32_Witness ==
  /\ source = FunctionSource(<< <<"a">>, <<"b">>, <<"c">> >>,
                             <<S_block, S_return>>, << <<"y">>, <<";">> >>)
  /\ pc = "done"
  /\ Len(program.functions) = 1
  /\ Len(program.functions[1].body.statements) = 2
  /\ Len(program.statements) = 1

\* C11: hadError() is false right after construction, is true exactly when
\* error() has been called (a line is on the diagnostic stream), and once
\* true is never reset.
C11_HadError ==
  /\ [](errorOccurred <=> cerr # <<>>)
  /\ [][/\ pc = "new" => ~errorOccurred'
        /\ errorOccurred => errorOccurred']_vars

\* C11's case: parse() has returned after error() was called.
C11_Witness == pc = "done" /\ errorOccurred /\ Len(cerr) > 1

====
